---- MODULE Spec2Model ----
(***************************************************************************)
(* Screenshot Editor: the full-page capture-and-stitch pipeline of the     *)
(* background script (src/entrypoints/background.ts) and the annotation    *)
(* document with its undo/redo history (src/entrypoints/editor/Editor.tsx).*)
(*                                                                         *)
(* Spec        the full-page capture pipeline, captureFullPage followed by *)
(*             stitchImages, against a page of constant height whose       *)
(*             browser clamps scroll offsets.                              *)
(* SpecEditor  the editor: pointer gestures, text, property edits, presets,*)
(*             image upload, crop, undo and redo.                          *)
(***************************************************************************)
EXTENDS Integers, Sequences, FiniteSets, TLC

VARIABLES
    \* ---- background.ts, captureFullPage / stitchImages ----
    pc,             \* position of captureFullPage
    dimensions,     \* page metrics read at the start of the run
    bitmapHeight,   \* height in device pixels of every captured bitmap
    page,           \* the tab's page: scroll position and hide styling
    currentY,       \* target offset of the frame loop
    iteration,      \* iteration counter of the frame loop
    captures,       \* recorded frames: the actual offset y of each
    restoreIssued,  \* number of restore instructions sent to the page
    canvas,         \* output of stitchImages: height and draws performed
    outcome,        \* how captureFullPage ended
    scriptable,     \* the tab still accepts injected scripts
    actualScrollY,  \* the offset the scroll step of this iteration resolved to
    \* ---- background.ts, handleCapture and the onMessage listener ----
    hc,             \* position of handleCapture('fullpage')
    store,          \* browser.storage.local: <<>> or <<capturedImage>>
    editorTabs,     \* number of editor tabs created
    cleanups,       \* number of 'cleanup-selection' broadcasts
    response,       \* <<>> or <<the response sent to the requester>>
    \* ---- background.ts, waitForSelection ----
    ws,             \* the pending wait: its listener, timer and promise
    inbox,          \* runtime messages that will still arrive, in order
    \* ---- wxt.config.ts, lazy-load priming of captureFullPage ----
    prime,          \* the injected priming function and the page it scrolls
    \* ---- editor/Editor.tsx, the Editor component's state ----
    clock,          \* Date.now()
    tool,
    color,          \* current stroke colour, one of the global style states
    elements,
    selectedId,     \* <<>> for null, <<id>> otherwise
    isDrawing,
    currentElement, \* <<>> for null, <<element>> otherwise
    history,
    historyIndex,   \* 0-based, as in the code
    textInput,
    textValue,
    elementCounter,
    cropRect,       \* <<>> for null, <<rect>> otherwise
    isCropping,
    image,          \* the base bitmap
    presets,
    activePresetId, \* <<>> for null, <<id>> otherwise
    pendingCrop,    \* newImg of applyCrop whose onload has not fired yet
    pendingImage,   \* closure of an image upload whose onload has not fired
    events,         \* number of events the editor has handled
    \* ---- editor/Editor.tsx, one PixelatedBlur component ----
    blur,           \* its props, its blurredImage state and its pending loads
    \* ---- editor/Editor.tsx, the Stage, the zoom and the export timers ----
    stage,          \* stageSize, zoom, pending timers and the exported image
    \* ---- background.ts, the DOM that hide and restore act on ----
    dom,            \* style tags and, per element, marker class and inline styles
    \* ---- background.ts, capture requests running on one tab ----
    tabRuns,        \* the tab's page and, per request, the position of its run
    \* ---- content.ts, the selection overlay, and captureWithSelection ----
    cs,             \* the content script's instances, the page, the requests
    \* ---- background.ts and Editor.tsx, the bitmap handed to the editor ----
    handoff,        \* the store, the requests and the editor tabs they open
    \* ---- editor/Editor.tsx, the key stylePresets of chrome.storage.local ----
    stylePresets    \* the persisted preset list

handleCaptureVars == <<hc, store, editorTabs, cleanups, response>>

captureVars == <<pc, dimensions, bitmapHeight, page, currentY, iteration,
                 captures, restoreIssued, canvas, outcome, scriptable,
                 actualScrollY, handleCaptureVars>>

editorVars == <<clock, tool, color, elements, selectedId, isDrawing,
                currentElement, history, historyIndex, textInput, textValue,
                elementCounter, cropRect, isCropping, image, presets,
                activePresetId, pendingCrop, pendingImage, events>>

selectionVars == <<ws, inbox>>

\* what the actions of the capture pipeline and of the editor leave alone
outsideCapture == <<editorVars, selectionVars, prime, blur, stage, dom,
                     tabRuns, cs, handoff, stylePresets>>
outsideEditor == <<captureVars, selectionVars, prime, blur, stage, dom,
                    tabRuns, cs, handoff, stylePresets>>
outsideSelection == <<captureVars, editorVars, prime, blur, stage, dom,
                       tabRuns, cs, handoff, stylePresets>>
outsidePriming == <<captureVars, editorVars, selectionVars, blur, stage, dom,
                     tabRuns, cs, handoff, stylePresets>>
outsideBlur == <<captureVars, editorVars, selectionVars, prime, stage, dom,
                  tabRuns, cs, handoff, stylePresets>>
outsideStage == <<captureVars, editorVars, selectionVars, prime, blur, dom,
                   tabRuns, cs, handoff, stylePresets>>
outsideDom == <<captureVars, editorVars, selectionVars, prime, blur, stage,
                 tabRuns, cs, handoff, stylePresets>>
outsideTabRuns == <<captureVars, editorVars, selectionVars, prime, blur, stage,
                    dom, cs, handoff, stylePresets>>
outsideCs == <<captureVars, editorVars, selectionVars, prime, blur, stage,
               dom, tabRuns, handoff, stylePresets>>
outsideHandoff == <<captureVars, editorVars, selectionVars, prime, blur,
                    stage, dom, tabRuns, cs, stylePresets>>
\* what the preset operations of the editor leave alone
outsidePresets == <<captureVars, selectionVars, prime, blur, stage, dom,
                    tabRuns, cs, handoff>>

vars == <<captureVars, editorVars, selectionVars, prime, blur, stage, dom,
          tabRuns, cs, handoff, stylePresets>>

----------------------------------------------------------------------------
(* Arithmetic.  devicePixelRatio is a rational; it is kept in halves      *)
(* (dpr2 = 2*dpr), and so is every product y*dpr.                          *)

Min(a, b) == IF a < b THEN a ELSE b
Max(a, b) == IF a > b THEN a ELSE b

\* Math.ceil of h/2
CeilHalf(h) == -((-h) \div 2)
\* Math.round of h/2 (JavaScript rounds halves towards +infinity)
RoundHalf(h) == (h + 1) \div 2
\* Math.floor of h/2
FloorHalf(h) == h \div 2

MAX_CANVAS_HEIGHT == 30000
MaxIterations == 50

----------------------------------------------------------------------------
(* stitchImages, background.ts 389-457.  captures is the sequence of       *)
(* recorded offsets; frame i of the code is element i+1 here.              *)

\* captures[i].y * opts.dpr, in halves
scrollY2(ys, dpr2, i) == ys[i] * dpr2

\* the output height without the safety cap
totalPixelHeightUncapped(totalHeight, dpr2) == CeilHalf(totalHeight * dpr2)

totalPixelHeight(totalHeight, dpr2) ==
    Min(CeilHalf(totalHeight * dpr2), MAX_CANVAS_HEIGHT)

prevEndY(ys, dpr2, vpx, i) == RoundHalf(scrollY2(ys, dpr2, i - 1) + 2 * vpx)

overlap(ys, dpr2, vpx, i) ==
    Max(0, CeilHalf(2 * prevEndY(ys, dpr2, vpx, i) - scrollY2(ys, dpr2, i)))

drawHeight(ys, dpr2, vpx, i) ==
    IF i = 1
    THEN Min(vpx, MAX_CANVAS_HEIGHT)
    ELSE Min(vpx - overlap(ys, dpr2, vpx, i),
             MAX_CANVAS_HEIGHT - prevEndY(ys, dpr2, vpx, i))

\* the loop breaks at the first frame whose scrollY reaches the cap
stitchStopped(ys, dpr2, i) ==
    \E j \in 1..i : scrollY2(ys, dpr2, j) >= 2 * MAX_CANVAS_HEIGHT

\* the drawImage call made for frame i, or none
frameDrawn(ys, dpr2, vpx, i) ==
    /\ ~stitchStopped(ys, dpr2, i)
    /\ (i > 1 => drawHeight(ys, dpr2, vpx, i) > 0)

drawOf(ys, dpr2, vpx, i) ==
    [frame |-> i,
     sy    |-> IF i = 1 THEN 0 ELSE overlap(ys, dpr2, vpx, i),
     dy    |-> IF i = 1 THEN 0 ELSE prevEndY(ys, dpr2, vpx, i),
     h     |-> drawHeight(ys, dpr2, vpx, i)]

RECURSIVE drawsUpTo(_, _, _, _)
drawsUpTo(ys, dpr2, vpx, n) ==
    IF n = 0 THEN <<>>
    ELSE LET rest == drawsUpTo(ys, dpr2, vpx, n - 1)
         IN  IF frameDrawn(ys, dpr2, vpx, n)
             THEN Append(rest, drawOf(ys, dpr2, vpx, n))
             ELSE rest

stitchImages(ys, opts, vpx) ==
    [height |-> totalPixelHeight(opts.totalHeight, opts.dpr2),
     draws  |-> drawsUpTo(ys, opts.dpr2, vpx, Len(ys))]

----------------------------------------------------------------------------
(* The editor, editor/Editor.tsx: values and pure helpers.                 *)

\* bounds of the editor model
\* a session of the editor handles at most this many events
MaxEvents == 8

DrawTools == {"pencil", "line", "arrow", "rectangle", "circle", "blur"}
PathTools == {"pencil", "line", "arrow"}
\* the toolbar buttons pressed in a run (each calls setTool)
ToolbarTools == {"crop", "text", "pencil", "rectangle", "blur"}

\* pointer positions in layer coordinates, <<x, y>>: where the pointer is
\* pressed, and where it is moved or dropped
PressPoints == { <<50, 50>> }
Points == { <<50, 50>>, <<52, 52>>, <<60, 60>> }
DropPoints == { <<12, 12>> }
Colors == { "#6366f1", "#ff0000" }
TextValues == { "", " ", "hi" }

Abs(n) == IF n < 0 THEN -n ELSE n

\* String.prototype.trim on the text values above
trim(v) == IF v = " " THEN "" ELSE v

\* a DrawingElement; fields a kind does not carry hold 0, <<>> or ""
DrawingElement(id, type, x, y, points, width, height, text, col, name) ==
    [id |-> id, type |-> type, x |-> x, y |-> y, points |-> points,
     width |-> width, height |-> height, text |-> text, color |-> col,
     visible |-> TRUE, name |-> name]

\* handleStageMouseUp 549-551
hasSize(el) ==
    IF el.type = "pencil"
    THEN Len(el.points) > 4
    ELSE el.width > 5 \/ el.height > 5

\* addToHistory 447-452, on the history and historyIndex of the closure
addToHistory(h, idx, newElements) ==
    LET newHistory == Append(SubSeq(h, 1, idx + 1), newElements)
    IN  [history |-> newHistory, historyIndex |-> Len(newHistory) - 1]

\* updateElementProperty 416-418: elements.map(el => el.id === id ? {...el, ...updates} : el)
mergeUpdates(el, updates) ==
    [f \in DOMAIN el |-> IF f \in DOMAIN updates THEN updates[f] ELSE el[f]]

mapElement(els, id, updates) ==
    [k \in 1..Len(els) |->
        IF els[k].id = id THEN mergeUpdates(els[k], updates) ELSE els[k]]

\* elements.filter(el => el.id !== id)
RECURSIVE filterOut(_, _)
filterOut(els, id) ==
    IF els = <<>> THEN <<>>
    ELSE IF els[1].id = id THEN filterOut(Tail(els), id)
         ELSE <<els[1]>> \o filterOut(Tail(els), id)

hasElement(els, id) == \E k \in 1..Len(els) : els[k].id = id
findElement(els, id) == els[CHOOSE k \in 1..Len(els) : els[k].id = id]

\* preset.elements.find(el => el.type === t) || preset.elements[0], 348 / 760
hasType(tpl, t) == \E k \in 1..Len(tpl) : tpl[k].type = t
firstOfType(tpl, t) ==
    tpl[CHOOSE k \in 1..Len(tpl) :
            /\ tpl[k].type = t
            /\ \A j \in 1..(k - 1) : tpl[j].type # t]

\* the effect of 342-368, run after a render in which tool or activePresetId
\* changed: the active preset's matching template element seeds the colour
presetEffect(col, t, active, ps) ==
    IF active = <<>> THEN col
    ELSE IF ~(\E k \in 1..Len(ps) : ps[k].id = active[1]) THEN col
    ELSE LET preset == ps[CHOOSE k \in 1..Len(ps) : ps[k].id = active[1]]
         IN  IF Len(preset.elements) = 0 THEN col
             ELSE IF hasType(preset.elements, t)
                  THEN firstOfType(preset.elements, t).color
                  ELSE preset.elements[1].color

\* a synchronisation that spreads the whole template element over the match
applyPresetToSpreadingTemplate(els, preset) ==
    [k \in 1..Len(els) |->
        LET el  == els[k]
            tpl == preset.elements
        IN  IF k <= Len(tpl) /\ tpl[k].type = el.type
            THEN [tpl[k] EXCEPT !.id = el.id]
            ELSE IF hasType(tpl, el.type)
                 THEN [firstOfType(tpl, el.type) EXCEPT !.id = el.id]
                 ELSE el]

\* applyPreset 725-751
applyPresetTo(els, preset) ==
    [k \in 1..Len(els) |->
        LET el  == els[k]
            tpl == preset.elements
        IN  IF k <= Len(tpl) /\ tpl[k].type = el.type
            THEN [el EXCEPT !.color = tpl[k].color]
            ELSE IF hasType(tpl, el.type)
                 THEN [el EXCEPT !.color = firstOfType(tpl, el.type).color]
                 ELSE el]

\* presets found in chrome.storage.local when the editor opens
StoredPresets ==
    { << [id |-> 1, name |-> "brand",
          elements |-> << DrawingElement(1, "rectangle", 10, 10, <<0, 0, 10, 10>>,
                                         10, 10, "", "#ff0000", <<"rectangle", 1>>) >>] >> }

\* the captured bitmap as loaded by the editor: its size and the annotations
\* rasterised into its pixels
LoadedImage == [width |-> 100, height |-> 100, annotations |-> {}]

\* the state of the Editor component once the captured image has loaded
EditorInit ==
    /\ clock = 1
    /\ tool = "crop"
    /\ color = "#6366f1"
    /\ elements = <<>>
    /\ selectedId = <<>>
    /\ isDrawing = FALSE
    /\ currentElement = <<>>
    /\ history = << <<>> >>
    /\ historyIndex = 0
    /\ textInput = [x |-> 0, y |-> 0, visible |-> FALSE, editingId |-> <<>>]
    /\ textValue = ""
    /\ elementCounter = 1
    /\ cropRect = <<>>
    /\ isCropping = FALSE
    /\ image = LoadedImage
    /\ presets \in StoredPresets
    /\ activePresetId = <<>>
    /\ pendingCrop = <<>>
    /\ pendingImage = <<>>
    /\ events = 0

\* no selection is being waited for
NoWait == [started |-> FALSE, listener |-> FALSE, timer |-> FALSE,
           outcome |-> <<>>, late |-> 0]

SelectionIdle == ws = NoWait /\ inbox = <<>>

\* the priming function is not running
NoPriming == [pc |-> "idle", viewportHeight |-> 0, pageHeight |-> 0,
              scrollY |-> 0, currentY |-> 0, lastHeight |-> 0,
              sameHeightCount |-> 0, steps |-> 0, userScrollY |-> 0,
              originalScrollY |-> 0]

PrimingIdle == prime = NoPriming

\* no blur region is rendered
NoBlur == [mounted |-> FALSE, image |-> "",
           bounds |-> [x |-> 0, y |-> 0, width |-> 0, height |-> 0],
           blurredImage |-> <<>>, loading |-> {}]

BlurIdle == blur = NoBlur

\* clientWidth and clientHeight of the canvas viewport the editor runs in
Containers == { [clientWidth |-> 1240, clientHeight |-> 840],
                [clientWidth |-> 90,   clientHeight |-> 70] }

\* the stage when the captured image has just loaded in container c:
\* stageSize is the image's size, zoom is still its initial 0.5 (zoom is
\* kept in percent), and the timer that fits the zoom is pending
StageOnLoad(c) ==
    [stageSize |-> [width |-> LoadedImage.width, height |-> LoadedImage.height],
     zoom |-> 50, container |-> c, fitTimer |-> TRUE, exportTimers |-> <<>>,
     exported |-> <<>>]

StageIdle == stage = StageOnLoad([clientWidth |-> 1240, clientHeight |-> 840])

\* no page is being hidden or restored
NoDom == [styleTags |-> 0, elements |-> <<>>, original |-> <<>>,
          hides |-> 0, restored |-> FALSE]

DomIdle == dom = NoDom

\* the capture requests the listener may receive
Requests == {1, 2}

\* a request that has not arrived
NoRun == [pc |-> "idle", scrollHeight |-> 0, clientHeight |-> 0,
          originalScrollY |-> 0, currentY |-> 0, iteration |-> 0,
          actualScrollY |-> 0, captures |-> <<>>]

\* no capture request has arrived for the tab
NoTabRuns == [page |-> [scrollHeight |-> 0, clientHeight |-> 0, scrollY |-> 0,
                        hidden |-> FALSE],
              run |-> [r \in Requests |-> NoRun]]

TabRunsIdle == tabRuns = NoTabRuns

\* the runs of main() in one page
Instances == {1, 2}

\* the variables of a run of main(), content.ts 96-112; overlay, box and
\* actions tell whether the variable holds an element
NoInstance ==
    [loaded |-> FALSE, overlay |-> FALSE, listeners |-> FALSE, box |-> FALSE,
     actions |-> FALSE, isSelecting |-> FALSE, isResizing |-> FALSE,
     isMoving |-> FALSE, start |-> <<0, 0>>, offset |-> <<0, 0>>,
     selectRect |-> [x |-> 0, y |-> 0, w |-> 0, h |-> 0]]

\* a selection request that has not arrived
NoSelectionRequest == [at |-> "idle", rect |-> <<>>, overlayInShot |-> FALSE]

\* a page without content script: the window flag, the instances, the
\* instances whose overlay root is attached to the document, the pointer
\* button, the messages sent and not yet dispatched, and the requests
NoContentScript ==
    [flag |-> FALSE, inst |-> [i \in Instances |-> NoInstance], dom |-> {},
     down |-> FALSE, outbox |-> <<>>, sentSinceStart |-> 0, starts |-> 0,
     events |-> 0, req |-> [r \in Requests |-> NoSelectionRequest]]

CsIdle == cs = NoContentScript

\* an empty store, no capture request and no editor tab
NoHandoff ==
    [store |-> <<>>,
     req |-> [r \in Requests |-> [at |-> "idle", image |-> <<>>]],
     editor |-> [r \in Requests |-> [state |-> "none", image |-> <<>>]]]

HandoffIdle == handoff = NoHandoff

\* the editor has written no preset list
StylePresetsIdle == stylePresets = <<>>

----------------------------------------------------------------------------
(* The page and the inputs of a run.                                       *)

\* {scrollHeight, clientHeight} of the pages captured
Pages == { [scrollHeight |-> 2350,  clientHeight |-> 800],
           [scrollHeight |-> 800,   clientHeight |-> 800],
           [scrollHeight |-> 2333,  clientHeight |-> 800],
           [scrollHeight |-> 2403,  clientHeight |-> 801],
           [scrollHeight |-> 50000, clientHeight |-> 800],
           [scrollHeight |-> 25000, clientHeight |-> 400],
           [scrollHeight |-> 0,     clientHeight |-> 0] }

\* devicePixelRatio 1, 1.5 and 2, in halves
DevicePixelRatios == {2, 3, 4}

\* scroll positions the user may have before the run
ScrollPositions == { [x |-> 0, y |-> 0], [x |-> 15, y |-> 120] }

\* window.scrollTo clamps to the scrollable range of the page
ClampScroll(y, d) == Max(0, Min(y, d.scrollHeight - d.clientHeight))

NoCanvas == [height |-> 0, draws |-> <<>>]

Init ==
    /\ pc = "start"
    /\ \E p \in Pages, r \in DevicePixelRatios, s \in ScrollPositions :
          /\ dimensions = [scrollHeight |-> p.scrollHeight,
                           clientHeight |-> p.clientHeight,
                           scrollX |-> s.x, scrollY |-> ClampScroll(s.y, p),
                           dpr2 |-> r]
          /\ page = [scrollX |-> s.x, scrollY |-> ClampScroll(s.y, p),
                     hidden |-> FALSE]
          \* the browser rasterises the viewport to whole device pixels
          /\ bitmapHeight \in { FloorHalf(p.clientHeight * r),
                                CeilHalf(p.clientHeight * r) }
    /\ currentY = 0
    /\ iteration = 0
    /\ captures = <<>>
    /\ restoreIssued = 0
    /\ canvas = NoCanvas
    /\ outcome = "running"
    /\ scriptable = TRUE
    /\ actualScrollY = 0
    /\ hc = [at |-> "captureFullPage", error |-> <<>>]
    /\ store = <<>>
    /\ editorTabs = 0
    /\ cleanups = 0
    /\ response = <<>>
    /\ BlurIdle
    /\ HandoffIdle
    /\ StylePresetsIdle
    /\ CsIdle
    /\ TabRunsIdle
    /\ DomIdle
    /\ StageIdle
    /\ EditorInit
    /\ SelectionIdle
    /\ PrimingIdle

----------------------------------------------------------------------------
(* captureFullPage, background.ts 196-315.  One action per segment between *)
(* two awaits.                                                             *)

\* 197-198: no active tab, thrown before the try block
NoActiveTab ==
    /\ pc = "start"
    /\ pc' = "done"
    /\ outcome' = "error: No active tab"
    /\ UNCHANGED <<dimensions, bitmapHeight, page, currentY, iteration,
                   captures, restoreIssued, canvas>>
    /\ UNCHANGED <<scriptable, actualScrollY, handleCaptureVars>>
    /\ UNCHANGED outsideCapture

\* 200-219: the injected metrics reader returned nothing
NoDimensions ==
    /\ pc = "start"
    /\ ~scriptable
    /\ pc' = "done"
    /\ outcome' = "error: Could not get page dimensions"
    /\ UNCHANGED <<dimensions, bitmapHeight, page, currentY, iteration,
                   captures, restoreIssued, canvas>>
    /\ UNCHANGED <<scriptable, actualScrollY, handleCaptureVars>>
    /\ UNCHANGED outsideCapture

\* 200-229: metrics read, try block entered
ReadDimensions ==
    /\ pc = "start"
    /\ scriptable
    /\ pc' = "loop"
    /\ UNCHANGED <<dimensions, bitmapHeight, page, currentY, iteration,
                   captures, restoreIssued, canvas, outcome>>
    /\ UNCHANGED <<scriptable, actualScrollY, handleCaptureVars>>
    /\ UNCHANGED outsideCapture

\* a scroll step that goes on to the capture without the hide of iteration 2+
ScrollStepSkippingHide ==
    /\ pc = "loop"
    /\ currentY < dimensions.scrollHeight
    /\ scriptable
    /\ iteration' = iteration + 1
    /\ page' = [page EXCEPT !.scrollX = 0,
                            !.scrollY = ClampScroll(currentY, dimensions)]
    /\ actualScrollY' = page'.scrollY
    /\ pc' = "capture"
    /\ UNCHANGED <<dimensions, bitmapHeight, currentY, captures,
                   restoreIssued, canvas, outcome>>
    /\ UNCHANGED <<scriptable, handleCaptureVars>>
    /\ UNCHANGED outsideCapture

\* 230-252: loop test, scroll to currentY, read back window.scrollY
ScrollStep ==
    /\ pc = "loop"
    /\ currentY < dimensions.scrollHeight
    /\ scriptable
    /\ iteration' = iteration + 1
    /\ page' = [page EXCEPT !.scrollX = 0,
                            !.scrollY = ClampScroll(currentY, dimensions)]
    /\ actualScrollY' = page'.scrollY
    /\ pc' = IF iteration' > 1 THEN "hideBefore" ELSE "capture"
    /\ UNCHANGED <<dimensions, bitmapHeight, currentY, captures,
                   restoreIssued, canvas, outcome>>
    /\ UNCHANGED <<scriptable, handleCaptureVars>>
    /\ UNCHANGED outsideCapture

\* 230-252, the injected scroll function did not run: the callback gets no
\* result and line 247 resolves to currentY
ScrollStepFailed ==
    /\ pc = "loop"
    /\ currentY < dimensions.scrollHeight
    /\ ~scriptable
    /\ iteration' = iteration + 1
    /\ actualScrollY' = currentY
    /\ pc' = IF iteration' > 1 THEN "hideBefore" ELSE "capture"
    /\ UNCHANGED <<dimensions, bitmapHeight, page, currentY, captures,
                   restoreIssued, canvas, outcome>>
    /\ UNCHANGED <<scriptable, handleCaptureVars>>
    /\ UNCHANGED outsideCapture

\* hideFloatingElements 317-387: an injection error is caught and logged
hideFloatingElements(p) ==
    IF scriptable THEN [p EXCEPT !.hidden = TRUE] ELSE p

\* 255-259: on iteration 2+ hide floating elements before the capture
HideBeforeCapture ==
    /\ pc = "hideBefore"
    /\ page' = hideFloatingElements(page)
    /\ pc' = "capture"
    /\ UNCHANGED <<dimensions, bitmapHeight, currentY, iteration, captures,
                   restoreIssued, canvas, outcome>>
    /\ UNCHANGED <<scriptable, actualScrollY, handleCaptureVars>>
    /\ UNCHANGED outsideCapture

\* 262-271: captureVisibleTab succeeded, frame recorded with the actual offset
CaptureFrame ==
    /\ pc = "capture"
    /\ captures' = Append(captures, actualScrollY)
    /\ pc' = IF iteration = 1 THEN "hideAfter" ELSE "advance"
    /\ UNCHANGED <<dimensions, bitmapHeight, page, currentY, iteration,
                   restoreIssued, canvas, outcome>>
    /\ UNCHANGED <<scriptable, actualScrollY, handleCaptureVars>>
    /\ UNCHANGED outsideCapture

\* a capture error that leaves captureFullPage without running the finally block
CaptureErrorNoFinally ==
    /\ pc = "capture"
    /\ outcome' = "error: capture failed"
    /\ pc' = "done"
    /\ UNCHANGED <<dimensions, bitmapHeight, page, currentY, iteration,
                   captures, restoreIssued, canvas>>
    /\ UNCHANGED <<scriptable, actualScrollY, handleCaptureVars>>
    /\ UNCHANGED outsideCapture

\* 262-269: captureVisibleTab reported chrome.runtime.lastError
CaptureError ==
    /\ pc = "capture"
    /\ outcome' = "error: capture failed"
    /\ pc' = "finally"
    /\ UNCHANGED <<dimensions, bitmapHeight, page, currentY, iteration,
                   captures, restoreIssued, canvas>>
    /\ UNCHANGED <<scriptable, actualScrollY, handleCaptureVars>>
    /\ UNCHANGED outsideCapture

\* 275-279: right after the first frame, hide floating elements
HideAfterFirst ==
    /\ pc = "hideAfter"
    /\ page' = hideFloatingElements(page)
    /\ pc' = "advance"
    /\ UNCHANGED <<dimensions, bitmapHeight, currentY, iteration, captures,
                   restoreIssued, canvas, outcome>>
    /\ UNCHANGED <<scriptable, actualScrollY, handleCaptureVars>>
    /\ UNCHANGED outsideCapture

\* the target offset advanced from the offset the page actually reached
AdvanceFromActual ==
    /\ pc = "advance"
    /\ currentY' = actualScrollY + dimensions.clientHeight
    /\ pc' = IF iteration > MaxIterations THEN "afterLoop" ELSE "loop"
    /\ UNCHANGED <<dimensions, bitmapHeight, page, iteration, captures,
                   restoreIssued, canvas, outcome>>
    /\ UNCHANGED <<scriptable, actualScrollY, handleCaptureVars>>
    /\ UNCHANGED outsideCapture

\* 281-282: advance the target offset; safety break
Advance ==
    /\ pc = "advance"
    /\ currentY' = currentY + dimensions.clientHeight
    /\ pc' = IF iteration > MaxIterations THEN "afterLoop" ELSE "loop"
    /\ UNCHANGED <<dimensions, bitmapHeight, page, iteration, captures,
                   restoreIssued, canvas, outcome>>
    /\ UNCHANGED <<scriptable, actualScrollY, handleCaptureVars>>
    /\ UNCHANGED outsideCapture

\* 230: loop test fails
ExitLoop ==
    /\ pc = "loop"
    /\ ~(currentY < dimensions.scrollHeight)
    /\ pc' = "afterLoop"
    /\ UNCHANGED <<dimensions, bitmapHeight, page, currentY, iteration,
                   captures, restoreIssued, canvas, outcome>>
    /\ UNCHANGED <<scriptable, actualScrollY, handleCaptureVars>>
    /\ UNCHANGED outsideCapture

\* 285: zero frames
NoFrames ==
    /\ pc = "afterLoop"
    /\ Len(captures) = 0
    /\ outcome' = "error: Capture failed: No frames received"
    /\ pc' = "finally"
    /\ UNCHANGED <<dimensions, bitmapHeight, page, currentY, iteration,
                   captures, restoreIssued, canvas>>
    /\ UNCHANGED <<scriptable, actualScrollY, handleCaptureVars>>
    /\ UNCHANGED outsideCapture

stitchOpts == [totalHeight |-> dimensions.scrollHeight,
               viewportHeight |-> dimensions.clientHeight,
               dpr2 |-> dimensions.dpr2]

\* 287-294 and 389-457: stitchImages returned the composited image
Stitch ==
    /\ pc = "afterLoop"
    /\ Len(captures) > 0
    /\ canvas' = stitchImages(captures, stitchOpts, bitmapHeight)
    /\ outcome' = "stitched"
    /\ pc' = "finally"
    /\ UNCHANGED <<dimensions, bitmapHeight, page, currentY, iteration,
                   captures, restoreIssued>>
    /\ UNCHANGED <<scriptable, actualScrollY, handleCaptureVars>>
    /\ UNCHANGED outsideCapture

\* 409-417: the OffscreenCanvas could not be created
StitchError ==
    /\ pc = "afterLoop"
    /\ Len(captures) > 0
    /\ outcome' = "error: Image too large"
    /\ pc' = "finally"
    /\ UNCHANGED <<dimensions, bitmapHeight, page, currentY, iteration,
                   captures, restoreIssued, canvas>>
    /\ UNCHANGED <<scriptable, actualScrollY, handleCaptureVars>>
    /\ UNCHANGED outsideCapture

\* what the restore instruction of 295-314 does to the page
restorePage(p, x, y) ==
    IF scriptable THEN [scrollX |-> x, scrollY |-> y, hidden |-> FALSE] ELSE p

\* the tab stops accepting injected scripts (it navigated to a restricted
\* page, or its frame was replaced): every later executeScript fails
ScriptingLost ==
    /\ pc # "done"
    /\ scriptable
    /\ scriptable' = FALSE
    /\ UNCHANGED <<pc, dimensions, bitmapHeight, page, currentY, iteration,
                   captures, restoreIssued, canvas, outcome, actualScrollY,
                   handleCaptureVars>>
    /\ UNCHANGED outsideCapture

\* 295-314: the finally block
Finally ==
    /\ pc = "finally"
    /\ restoreIssued' = restoreIssued + 1
    /\ page' = restorePage(page, dimensions.scrollX, dimensions.scrollY)
    /\ pc' = "done"
    /\ UNCHANGED <<dimensions, bitmapHeight, currentY, iteration, captures,
                   canvas, outcome>>
    /\ UNCHANGED <<scriptable, actualScrollY, handleCaptureVars>>
    /\ UNCHANGED outsideCapture

----------------------------------------------------------------------------
(* handleCapture('fullpage') 42-70 and the onMessage listener 20-33, from  *)
(* the point where captureFullPage has settled.                            *)

CaptureVarsOfRun == <<pc, dimensions, bitmapHeight, page, currentY, iteration,
                      captures, restoreIssued, canvas, outcome, scriptable,
                      actualScrollY>>

\* 60: captureFullPage resolved, the image is written to the store
StoreImage ==
    /\ pc = "done" /\ outcome = "stitched"
    /\ hc.at = "captureFullPage"
    /\ store' = << canvas >>
    /\ hc' = [hc EXCEPT !.at = "createTab"]
    /\ UNCHANGED <<editorTabs, cleanups, response>>
    /\ UNCHANGED CaptureVarsOfRun
    /\ UNCHANGED outsideCapture

\* 60: browser.storage.local.set rejected
StoreError ==
    /\ pc = "done" /\ outcome = "stitched"
    /\ hc.at = "captureFullPage"
    /\ hc' = [at |-> "catch", error |-> << "error: storage" >>]
    /\ UNCHANGED <<store, editorTabs, cleanups, response>>
    /\ UNCHANGED CaptureVarsOfRun
    /\ UNCHANGED outsideCapture

\* 61: the editor tab is created
CreateTab ==
    /\ hc.at = "createTab"
    /\ editorTabs' = editorTabs + 1
    /\ hc' = [hc EXCEPT !.at = "cleanup"]
    /\ UNCHANGED <<store, cleanups, response>>
    /\ UNCHANGED CaptureVarsOfRun
    /\ UNCHANGED outsideCapture

\* 61: browser.tabs.create rejected
CreateTabError ==
    /\ hc.at = "createTab"
    /\ hc' = [at |-> "catch", error |-> << "error: tab" >>]
    /\ UNCHANGED <<store, editorTabs, cleanups, response>>
    /\ UNCHANGED CaptureVarsOfRun
    /\ UNCHANGED outsideCapture

\* a handleCapture that keeps what a failed run produced
CaptureRejectedStoring ==
    /\ pc = "done" /\ outcome \notin {"running", "stitched"}
    /\ hc.at = "captureFullPage"
    /\ store' = << canvas >>
    /\ hc' = [hc EXCEPT !.at = "createTab"]
    /\ UNCHANGED <<editorTabs, cleanups, response>>
    /\ UNCHANGED CaptureVarsOfRun
    /\ UNCHANGED outsideCapture

\* 54, 65: captureFullPage rejected, the catch block is entered
CaptureRejected ==
    /\ pc = "done" /\ outcome \notin {"running", "stitched"}
    /\ hc.at = "captureFullPage"
    /\ hc' = [at |-> "catch", error |-> << outcome >>]
    /\ UNCHANGED <<store, editorTabs, cleanups, response>>
    /\ UNCHANGED CaptureVarsOfRun
    /\ UNCHANGED outsideCapture

\* 62-64: broadcastCleanup on the success path, handleCapture resolves
CleanupAfterSuccess ==
    /\ hc.at = "cleanup"
    /\ cleanups' = cleanups + 1
    /\ hc' = [hc EXCEPT !.at = "resolved"]
    /\ UNCHANGED <<store, editorTabs, response>>
    /\ UNCHANGED CaptureVarsOfRun
    /\ UNCHANGED outsideCapture

\* a catch block that rethrows without broadcasting
RethrowWithoutCleanup ==
    /\ hc.at = "catch"
    /\ hc' = [hc EXCEPT !.at = "rejected"]
    /\ UNCHANGED <<store, editorTabs, cleanups, response>>
    /\ UNCHANGED CaptureVarsOfRun
    /\ UNCHANGED outsideCapture

\* 66-68: broadcastCleanup in the catch block, the error is rethrown
CleanupAfterFailure ==
    /\ hc.at = "catch"
    /\ cleanups' = cleanups + 1
    /\ hc' = [hc EXCEPT !.at = "rejected"]
    /\ UNCHANGED <<store, editorTabs, response>>
    /\ UNCHANGED CaptureVarsOfRun
    /\ UNCHANGED outsideCapture

\* 23: .then(result => sendResponse(result))
RespondSuccess ==
    /\ hc.at = "resolved"
    /\ response' = << [success |-> TRUE, error |-> ""] >>
    /\ hc' = [hc EXCEPT !.at = "responded"]
    /\ UNCHANGED <<store, editorTabs, cleanups>>
    /\ UNCHANGED CaptureVarsOfRun
    /\ UNCHANGED outsideCapture

\* 24-31: .catch(error => sendResponse({ success: false, error }))
RespondFailure ==
    /\ hc.at = "rejected"
    /\ response' = << [success |-> FALSE, error |-> hc.error[1]] >>
    /\ hc' = [hc EXCEPT !.at = "responded"]
    /\ UNCHANGED <<store, editorTabs, cleanups>>
    /\ UNCHANGED CaptureVarsOfRun
    /\ UNCHANGED outsideCapture

----------------------------------------------------------------------------
(* waitForSelection, background.ts 134-155.                                *)

\* the tab the selection was started in
SelectionTab == 1

\* runtime messages: the sender's tab, the type, and for 'selection-complete'
\* either canceled or a rect
Messages ==
    { [tab |-> t, type |-> "selection-complete", canceled |-> c, rect |-> r] :
          t \in {1, 2}, c \in BOOLEAN, r \in {"rectA", "rectB"} }
    \cup { [tab |-> t, type |-> "cleanup-selection", canceled |-> FALSE,
            rect |-> "rectA"] : t \in {1, 2} }

\* at most this many messages arrive
MaxMessages == 2

RECURSIVE SeqsUpTo(_, _)
SeqsUpTo(S, n) ==
    IF n = 0 THEN { <<>> }
    ELSE SeqsUpTo(S, n - 1)
         \cup { Append(q, x) : q \in { r \in SeqsUpTo(S, n - 1) : Len(r) = n - 1 },
                               x \in S }

\* 142: the test of the listener
accepts(message) ==
    message.tab = SelectionTab /\ message.type = "selection-complete"

\* 145-149: how the promise is settled by an accepted message
settlement(message) ==
    IF message.canceled THEN "error: Selection canceled" ELSE message.rect

\* a promise is settled by the first resolve or reject only
settle(current, value) == IF current = <<>> THEN << value >> ELSE current

\* 135-153: the promise executor: the timer is started, the listener registered
StartWait ==
    /\ ~ws.started
    /\ ws' = [ws EXCEPT !.started = TRUE, !.listener = TRUE, !.timer = TRUE]
    /\ UNCHANGED inbox
    /\ UNCHANGED outsideSelection

\* a runtime message is dispatched to the listeners registered at that time;
\* 141-151 is the listener of the wait
DeliverMessage ==
    /\ ws.started
    /\ inbox # <<>>
    /\ inbox' = Tail(inbox)
    /\ LET message == Head(inbox)
       IN  IF ~ws.listener
           THEN ws' = [ws EXCEPT !.late = ws.late + 1]
           ELSE IF accepts(message)
                THEN ws' = [ws EXCEPT !.timer = FALSE,
                                      !.listener = FALSE,
                                      !.outcome = settle(ws.outcome,
                                                         settlement(message))]
                ELSE ws' = ws
    /\ UNCHANGED outsideSelection

\* a timeout callback that rejects but leaves the listener registered
TimerFiresKeepingListener ==
    /\ ws.timer
    /\ ws' = [ws EXCEPT !.timer = FALSE,
                        !.outcome = settle(ws.outcome, "error: Selection timeout")]
    /\ UNCHANGED inbox
    /\ UNCHANGED outsideSelection

\* 136-139: the 60 s timer fires
TimerFires ==
    /\ ws.timer
    /\ ws' = [ws EXCEPT !.timer = FALSE,
                        !.listener = FALSE,
                        !.outcome = settle(ws.outcome, "error: Selection timeout")]
    /\ UNCHANGED inbox
    /\ UNCHANGED outsideSelection

----------------------------------------------------------------------------
(* The editor's handlers.  Each handler runs on the state of the render it *)
(* was created in; a synchronous handler sees the current state, the two   *)
(* asynchronous completions (image upload, crop) see what they captured.   *)

\* one more event (a user input or the completion of a load) is handled
Handled == events < MaxEvents /\ events' = events + 1

\* the pointer button is not held down in a drawing or crop gesture: every
\* button, layer card and shape is operated by a press of that same pointer
PointerFree == ~isDrawing /\ ~isCropping

\* toolbar button 1024: setTool(t), then the effects of 342-368 and 408-413
SetTool(t) ==
    /\ PointerFree
    /\ t # tool
    /\ tool' = t
    /\ color' = presetEffect(color, t, activePresetId, presets)
    /\ IF t # "crop"
       THEN cropRect' = <<>> /\ isCropping' = FALSE
       ELSE UNCHANGED <<cropRect, isCropping>>
    /\ UNCHANGED <<clock, elements, selectedId, isDrawing, currentElement,
                   history, historyIndex, textInput, textValue,
                   elementCounter, image, presets, activePresetId,
                   pendingCrop, pendingImage>>
    /\ Handled
    /\ UNCHANGED outsideEditor

\* handleStageMouseDown 466-509, tool 'crop', pressed on the empty canvas
CropMouseDown(pos) ==
    /\ PointerFree
    /\ tool = "crop"
    /\ selectedId' = <<>>
    /\ isCropping' = TRUE
    /\ cropRect' = << [x |-> pos[1], y |-> pos[2], width |-> 0, height |-> 0] >>
    /\ UNCHANGED <<clock, tool, color, elements, isDrawing, currentElement,
                   history, historyIndex, textInput, textValue,
                   elementCounter, image, presets, activePresetId,
                   pendingCrop, pendingImage>>
    /\ Handled
    /\ UNCHANGED outsideEditor

\* handleStageMouseDown 479-485, tool 'text', pressed on the empty canvas
TextMouseDown(pos) ==
    /\ PointerFree
    /\ tool = "text"
    /\ textInput' = [x |-> pos[1], y |-> pos[2], visible |-> TRUE,
                     editingId |-> <<>>]
    /\ textValue' = ""
    /\ UNCHANGED <<clock, tool, color, elements, selectedId, isDrawing,
                   currentElement, history, historyIndex, elementCounter,
                   cropRect, isCropping, image, presets, activePresetId,
                   pendingCrop, pendingImage>>
    /\ Handled
    /\ UNCHANGED outsideEditor

\* handleStageMouseDown 487-508, a drawing tool; dt is the time that passed
\* since the clock was last read
DrawMouseDown(pos, dt) ==
    /\ PointerFree
    /\ tool \in DrawTools
    /\ clock' = clock + dt
    /\ isDrawing' = TRUE
    /\ currentElement' =
          << DrawingElement(clock', tool, pos[1], pos[2],
                            IF tool = "pencil" THEN <<0, 0>> ELSE <<0, 0, 0, 0>>,
                            0, 0, "", color, <<tool, elementCounter>>) >>
    /\ UNCHANGED <<tool, color, elements, selectedId, history, historyIndex,
                   textInput, textValue, elementCounter, cropRect, isCropping,
                   image, presets, activePresetId, pendingCrop, pendingImage>>
    /\ Handled
    /\ UNCHANGED outsideEditor

\* the pencil branch of handleStageMouseMove, 517-519
pencilMove(el, pos) ==
    [el EXCEPT !.points = el.points \o <<pos[1] - el.x, pos[2] - el.y>>]

\* handleStageMouseMove 511-530 (onMouseMove while tool is not 'crop')
handleStageMouseMove(pos) ==
    /\ tool # "crop"
    /\ isDrawing /\ currentElement # <<>>
    /\ LET el == currentElement[1]
       IN  IF el.type = "pencil"
           THEN currentElement' = << pencilMove(el, pos) >>
           ELSE LET width  == pos[1] - el.x
                    height == pos[2] - el.y
                IN  currentElement' =
                       << [el EXCEPT !.points = <<0, 0, width, height>>,
                                     !.width = Abs(width),
                                     !.height = Abs(height)] >>
    /\ UNCHANGED <<clock, tool, color, elements, selectedId, isDrawing,
                   history, historyIndex, textInput, textValue,
                   elementCounter, cropRect, isCropping, image, presets,
                   activePresetId, pendingCrop, pendingImage>>
    /\ Handled
    /\ UNCHANGED outsideEditor

\* handleCropMouseMove 532-540 (onMouseMove while tool is 'crop')
handleCropMouseMove(pos) ==
    /\ tool = "crop"
    /\ isCropping /\ cropRect # <<>>
    /\ cropRect' = << [cropRect[1] EXCEPT !.width = pos[1] - cropRect[1].x,
                                          !.height = pos[2] - cropRect[1].y] >>
    /\ UNCHANGED <<clock, tool, color, elements, selectedId, isDrawing,
                   currentElement, history, historyIndex, textInput,
                   textValue, elementCounter, isCropping, image, presets,
                   activePresetId, pendingCrop, pendingImage>>
    /\ Handled
    /\ UNCHANGED outsideEditor

\* handleCropMouseUp 542-544
handleCropMouseUp ==
    /\ tool = "crop"
    /\ isCropping
    /\ isCropping' = FALSE
    /\ UNCHANGED <<clock, tool, color, elements, selectedId, isDrawing,
                   currentElement, history, historyIndex, textInput,
                   textValue, elementCounter, cropRect, image, presets,
                   activePresetId, pendingCrop, pendingImage>>
    /\ Handled
    /\ UNCHANGED outsideEditor

\* handleStageMouseUp 546-560 (onMouseUp while tool is not 'crop')
handleStageMouseUp ==
    /\ tool # "crop"
    /\ isDrawing /\ currentElement # <<>>
    /\ isDrawing' = FALSE
    /\ IF hasSize(currentElement[1])
       THEN LET newElements == Append(elements, currentElement[1])
                h == addToHistory(history, historyIndex, newElements)
            IN                /\ elements' = newElements
                /\ history' = h.history
                /\ historyIndex' = h.historyIndex
                /\ elementCounter' = elementCounter + 1
       ELSE UNCHANGED <<elements, history, historyIndex, elementCounter>>
    /\ currentElement' = <<>>
    /\ UNCHANGED <<clock, tool, color, selectedId, textInput, textValue,
                   cropRect, isCropping, image, presets, activePresetId,
                   pendingCrop, pendingImage>>
    /\ Handled
    /\ UNCHANGED outsideEditor

\* the text field's onChange, 1077
TextChange(v) ==
    /\ PointerFree
    /\ textInput.visible
    /\ v # textValue
    /\ textValue' = v
    /\ UNCHANGED <<clock, tool, color, elements, selectedId, isDrawing,
                   currentElement, history, historyIndex, textInput,
                   elementCounter, cropRect, isCropping, image, presets,
                   activePresetId, pendingCrop, pendingImage>>
    /\ Handled
    /\ UNCHANGED outsideEditor

\* handleTextSubmit 562-590 (confirm button or Enter)
handleTextSubmit(dt) ==
    /\ PointerFree
    /\ textInput.visible
    /\ IF trim(textValue) = ""
       THEN /\ dt = 0
            /\ textInput' = [textInput EXCEPT !.visible = FALSE]
            /\ UNCHANGED <<clock, elements, history, historyIndex,
                           elementCounter, textValue, activePresetId>>
       ELSE /\ IF textInput.editingId # <<>>
               THEN \* updateElementProperty(editingId, {text, color})
                    LET newElements == mapElement(elements, textInput.editingId[1],
                                          [text |-> trim(textValue), color |-> color])
                        h == addToHistory(history, historyIndex, newElements)
                    IN  /\ dt = 0
                        /\ elements' = newElements
                        /\ history' = h.history
                        /\ historyIndex' = h.historyIndex
                        /\ activePresetId' = <<>>
                        /\ UNCHANGED <<clock, elementCounter>>
               ELSE LET newElement == DrawingElement(clock + dt, "text",
                                          textInput.x, textInput.y, <<>>, 0, 0,
                                          trim(textValue), color,
                                          <<"text", elementCounter>>)
                        newElements == Append(elements, newElement)
                        h == addToHistory(history, historyIndex, newElements)
                    IN                        /\ clock' = clock + dt
                        /\ elements' = newElements
                        /\ history' = h.history
                        /\ historyIndex' = h.historyIndex
                        /\ elementCounter' = elementCounter + 1
                        /\ UNCHANGED activePresetId
            /\ textInput' = [textInput EXCEPT !.visible = FALSE,
                                              !.editingId = <<>>]
            /\ textValue' = ""
    /\ UNCHANGED <<tool, color, selectedId, isDrawing, currentElement,
                   cropRect, isCropping, image, presets, pendingCrop,
                   pendingImage>>
    /\ Handled
    /\ UNCHANGED outsideEditor

\* a cancel that keeps what was typed, as a text field that commits when it
\* loses the focus would
TextCancelCommitting ==
    /\ PointerFree
    /\ textInput.visible
    /\ textInput' = [textInput EXCEPT !.visible = FALSE]
    /\ LET newElement == DrawingElement(clock, "text", textInput.x,
                                        textInput.y, <<>>, 0, 0, textValue,
                                        color, <<"text", elementCounter>>)
           newElements == Append(elements, newElement)
           h == addToHistory(history, historyIndex, newElements)
       IN  /\ elements' = newElements
           /\ history' = h.history
           /\ historyIndex' = h.historyIndex
           /\ elementCounter' = elementCounter + 1
    /\ UNCHANGED <<clock, tool, color, selectedId, isDrawing, currentElement,
                   textValue, cropRect, isCropping, image, presets,
                   activePresetId, pendingCrop, pendingImage>>
    /\ Handled
    /\ UNCHANGED outsideEditor

\* cancel button or Escape, 1077-1080
TextCancel ==
    /\ PointerFree
    /\ textInput.visible
    /\ textInput' = [textInput EXCEPT !.visible = FALSE]
    /\ UNCHANGED <<clock, tool, color, elements, selectedId, isDrawing,
                   currentElement, history, historyIndex, textValue,
                   elementCounter, cropRect, isCropping, image, presets,
                   activePresetId, pendingCrop, pendingImage>>
    /\ Handled
    /\ UNCHANGED outsideEditor

\* handleElementClick 592-613 (press on a rendered element, or on its layer
\* card), then the effects of 342-368 and 408-413 if the tool changed
handleElementClick(id) ==
    /\ PointerFree
    /\ hasElement(elements, id)
    /\ LET el == findElement(elements, id)
       IN  /\ selectedId' = <<id>>
           /\ tool' = el.type
           /\ color' = IF el.type # tool
                       THEN presetEffect(el.color, el.type, activePresetId, presets)
                       ELSE el.color
           /\ IF el.type # tool
              THEN cropRect' = <<>> /\ isCropping' = FALSE
              ELSE UNCHANGED <<cropRect, isCropping>>
           /\ IF el.type = "text" /\ tool = "text"
              THEN /\ textInput' = [x |-> el.x, y |-> el.y, visible |-> TRUE,
                                    editingId |-> <<id>>]
                   /\ textValue' = el.text
              ELSE UNCHANGED <<textInput, textValue>>
    /\ UNCHANGED <<clock, elements, isDrawing, currentElement, history,
                   historyIndex, elementCounter, image, presets,
                   activePresetId, pendingCrop, pendingImage>>
    /\ Handled
    /\ UNCHANGED outsideEditor

\* an element that is rendered and was pressed on: it is the selected one
Grabbed(id) ==
    /\ PointerFree
    /\ selectedId = <<id>>
    /\ hasElement(elements, id)
    /\ findElement(elements, id).visible

\* handleDragEnd 615-617: updateElementProperty(id, {x, y})
handleDragEnd(id, pos) ==
    /\ Grabbed(id)
    /\ LET newElements == mapElement(elements, id, [x |-> pos[1], y |-> pos[2]])
           h == addToHistory(history, historyIndex, newElements)
       IN           /\ elements' = newElements
           /\ history' = h.history
           /\ historyIndex' = h.historyIndex
    /\ UNCHANGED <<clock, tool, color, selectedId, isDrawing, currentElement,
                   textInput, textValue, elementCounter, cropRect, isCropping,
                   image, presets, activePresetId, pendingCrop, pendingImage>>
    /\ Handled
    /\ UNCHANGED outsideEditor

\* the element after a transform by integer scale factors, 624-636 (the
\* fontSize and strokeWidth of a text element are not part of this model)
transformed(el, scaleX, scaleY) ==
    IF el.type \in PathTools
    THEN [el EXCEPT !.points = [i \in 1..Len(el.points) |->
                                   IF i % 2 = 1 THEN el.points[i] * scaleX
                                                ELSE el.points[i] * scaleY]]
    ELSE IF el.type = "text" THEN el
    ELSE [el EXCEPT !.width = Abs(el.width * scaleX),
                    !.height = Abs(el.height * scaleY)]

\* handleTransformEnd 619-641
handleTransformEnd(id, scaleX, scaleY) ==
    /\ Grabbed(id)
    /\ LET newElements == [k \in 1..Len(elements) |->
                              IF elements[k].id = id
                              THEN transformed(elements[k], scaleX, scaleY)
                              ELSE elements[k]]
           h == addToHistory(history, historyIndex, newElements)
       IN           /\ elements' = newElements
           /\ history' = h.history
           /\ historyIndex' = h.historyIndex
    /\ UNCHANGED <<clock, tool, color, selectedId, isDrawing, currentElement,
                   textInput, textValue, elementCounter, cropRect, isCropping,
                   image, presets, activePresetId, pendingCrop, pendingImage>>
    /\ Handled
    /\ UNCHANGED outsideEditor

\* deleteElement 643-648
deleteElement(id) ==
    /\ PointerFree
    /\ hasElement(elements, id)
    /\ LET newElements == filterOut(elements, id)
           h == addToHistory(history, historyIndex, newElements)
       IN           /\ elements' = newElements
           /\ history' = h.history
           /\ historyIndex' = h.historyIndex
    /\ selectedId' = IF selectedId = <<id>> THEN <<>> ELSE selectedId
    /\ UNCHANGED <<clock, tool, color, isDrawing, currentElement, textInput,
                   textValue, elementCounter, cropRect, isCropping, image,
                   presets, activePresetId, pendingCrop, pendingImage>>
    /\ Handled
    /\ UNCHANGED outsideEditor

\* toggleVisibility 650-652
toggleVisibility(id) ==
    /\ PointerFree
    /\ hasElement(elements, id)
    /\ elements' = [k \in 1..Len(elements) |->
                       IF elements[k].id = id
                       THEN [elements[k] EXCEPT !.visible = ~elements[k].visible]
                       ELSE elements[k]]
    /\ UNCHANGED <<clock, tool, color, selectedId, isDrawing, currentElement,
                   history, historyIndex, textInput, textValue,
                   elementCounter, cropRect, isCropping, image, presets,
                   activePresetId, pendingCrop, pendingImage>>
    /\ Handled
    /\ UNCHANGED outsideEditor

\* the colour field of the properties panel, 1127-1129:
\* updateElementProperty(el.id, {color}) 415-445
UpdateColor(id, c) ==
    /\ PointerFree
    /\ selectedId = <<id>>
    /\ hasElement(elements, id)
    /\ findElement(elements, id).type \notin {"blur", "image"}
    /\ c # findElement(elements, id).color
    /\ LET newElements == mapElement(elements, id, [color |-> c])
           h == addToHistory(history, historyIndex, newElements)
       IN           /\ elements' = newElements
           /\ history' = h.history
           /\ historyIndex' = h.historyIndex
    /\ color' = c
    /\ activePresetId' = <<>>
    /\ UNCHANGED <<clock, tool, selectedId, isDrawing, currentElement,
                   textInput, textValue, elementCounter, cropRect, isCropping,
                   image, presets, pendingCrop, pendingImage>>
    /\ Handled
    /\ UNCHANGED outsideEditor

\* applyPreset 722-781, preset k of the templates menu
applyPreset(k) ==
    /\ PointerFree
    /\ k \in 1..Len(presets)
    /\ IF Len(elements) > 0
       THEN LET newElements == applyPresetTo(elements, presets[k])
                h == addToHistory(history, historyIndex, newElements)
            IN                /\ elements' = newElements
                /\ history' = h.history
                /\ historyIndex' = h.historyIndex
       ELSE UNCHANGED <<elements, history, historyIndex>>
    /\ activePresetId' = << presets[k].id >>
    /\ color' = presetEffect(color, tool, activePresetId', presets)
    /\ UNCHANGED <<clock, tool, selectedId, isDrawing, currentElement,
                   textInput, textValue, elementCounter, cropRect, isCropping,
                   image, presets, pendingCrop, pendingImage>>
    /\ Handled
    /\ UNCHANGED outsideEditor

\* 665-668, 703-706: the template copies of the elements; their ids are
\* random strings, here the numbers below zero
templateOf(els) == [k \in 1..Len(els) |-> [els[k] EXCEPT !.id = 0 - k]]

\* saveCurrentAsPreset 654-683 with a name typed; the id is template-<time>
\* and time has passed since the clock was last read
saveCurrentAsPreset ==
    /\ PointerFree
    /\ Len(elements) > 0
    /\ clock' = clock + 1
    /\ LET newPreset == [id |-> clock', name |-> "saved",
                         elements |-> templateOf(elements)]
       IN  /\ presets' = << newPreset >> \o presets
           /\ activePresetId' = << newPreset.id >>
    /\ stylePresets' = presets'
    /\ color' = presetEffect(color, tool, activePresetId', presets')
    /\ UNCHANGED <<tool, elements, selectedId, isDrawing, currentElement,
                   history, historyIndex, textInput, textValue,
                   elementCounter, cropRect, isCropping, image, pendingCrop,
                   pendingImage>>
    /\ Handled
    /\ UNCHANGED outsidePresets

\* deletePreset 685-691, preset k of the templates menu
deletePreset(k) ==
    /\ PointerFree
    /\ k \in 1..Len(presets)
    /\ presets' = SelectSeq(presets, LAMBDA q : q.id # presets[k].id)
    /\ stylePresets' = presets'
    /\ UNCHANGED <<clock, tool, color, elements, selectedId, isDrawing,
                   currentElement, history, historyIndex, textInput,
                   textValue, elementCounter, cropRect, isCropping, image,
                   activePresetId, pendingCrop, pendingImage>>
    /\ Handled
    /\ UNCHANGED outsidePresets

\* updatePreset 693-720, preset k of the templates menu
updatePreset(k) ==
    /\ PointerFree
    /\ k \in 1..Len(presets)
    /\ Len(elements) > 0
    /\ presets' = [j \in 1..Len(presets) |->
                     IF presets[j].id = presets[k].id
                     THEN [presets[j] EXCEPT !.elements = templateOf(elements)]
                     ELSE presets[j]]
    /\ activePresetId' = << presets[k].id >>
    /\ stylePresets' = presets'
    /\ color' = IF activePresetId' = activePresetId THEN color
                ELSE presetEffect(color, tool, activePresetId', presets')
    /\ UNCHANGED <<clock, tool, elements, selectedId, isDrawing,
                   currentElement, history, historyIndex, textInput,
                   textValue, elementCounter, cropRect, isCropping, image,
                   pendingCrop, pendingImage>>
    /\ Handled
    /\ UNCHANGED outsidePresets

\* the body of undo, 823-826: history[historyIndex - 1] of the code is
\* h[idx] of the 1-based sequence
undoResult(h, idx) == [elements |-> h[idx], historyIndex |-> idx - 1]

\* a redo that reads the snapshot one entry too early
redoResultOffByOne(h, idx) == [elements |-> h[idx + 1], historyIndex |-> idx + 1]

\* the body of redo, 830-833
redoResult(h, idx) == [elements |-> h[idx + 2], historyIndex |-> idx + 1]

\* undo without its guard
undoUnguarded ==
    /\ PointerFree
    /\ historyIndex' = historyIndex - 1
    /\ elements' = IF historyIndex > 0 THEN history[historyIndex] ELSE <<>>
    /\ UNCHANGED <<clock, tool, color, selectedId, isDrawing, currentElement,
                   history, textInput, textValue, elementCounter, cropRect,
                   isCropping, image, presets, activePresetId, pendingCrop,
                   pendingImage>>
    /\ Handled
    /\ UNCHANGED outsideEditor

\* undo 822-827
undo ==
    /\ PointerFree
    /\ historyIndex > 0
    /\ historyIndex' = undoResult(history, historyIndex).historyIndex
    /\ elements' = undoResult(history, historyIndex).elements
    /\ UNCHANGED <<clock, tool, color, selectedId, isDrawing, currentElement,
                   history, textInput, textValue, elementCounter, cropRect,
                   isCropping, image, presets, activePresetId, pendingCrop,
                   pendingImage>>
    /\ Handled
    /\ UNCHANGED outsideEditor

\* redo 829-834
redo ==
    /\ PointerFree
    /\ historyIndex < Len(history) - 1
    /\ historyIndex' = redoResult(history, historyIndex).historyIndex
    /\ elements' = redoResult(history, historyIndex).elements
    /\ UNCHANGED <<clock, tool, color, selectedId, isDrawing, currentElement,
                   history, textInput, textValue, elementCounter, cropRect,
                   isCropping, image, presets, activePresetId, pendingCrop,
                   pendingImage>>
    /\ Handled
    /\ UNCHANGED outsideEditor

\* the Apply / Cancel buttons are rendered, 1068
cropActionsShown ==
    /\ cropRect # <<>>
    /\ ~isCropping
    /\ Abs(cropRect[1].width) > 5

\* applyCrop 863-870: the bitmap drawn into the new canvas
cropBitmap(img, rect) ==
    [width |-> Abs(rect.width), height |-> Abs(rect.height),
     annotations |-> img.annotations]

\* applyCrop 861-880 up to newImg.src = ...; at most one newImg is loading
applyCrop ==
    /\ cropActionsShown
    /\ pendingCrop = <<>>
    /\ pendingCrop' = << cropBitmap(image, cropRect[1]) >>
    /\ UNCHANGED <<clock, tool, color, elements, selectedId, isDrawing,
                   currentElement, history, historyIndex, textInput,
                   textValue, elementCounter, cropRect, isCropping, image,
                   presets, activePresetId, pendingImage>>
    /\ Handled
    /\ UNCHANGED outsideEditor

\* a crop that swaps the bitmap but keeps the document and its history
cropOnloadKeepingHistory ==
    /\ pendingCrop # <<>>
    /\ image' = pendingCrop[1]
    /\ cropRect' = <<>>
    /\ pendingCrop' = <<>>
    /\ UNCHANGED <<elements, history, historyIndex>>
    /\ UNCHANGED <<clock, tool, color, selectedId, isDrawing, currentElement,
                   textInput, textValue, elementCounter, isCropping, presets,
                   activePresetId, pendingImage>>
    /\ Handled
    /\ UNCHANGED outsideEditor

\* newImg.onload of applyCrop, 873-878
cropOnload ==
    /\ pendingCrop # <<>>
    /\ image' = pendingCrop[1]
    /\ cropRect' = <<>>
    /\ elements' = <<>>
    /\ history' = << <<>> >>
    /\ historyIndex' = 0
    /\ pendingCrop' = <<>>
    /\ UNCHANGED <<clock, tool, color, selectedId, isDrawing, currentElement,
                   textInput, textValue, elementCounter, isCropping, presets,
                   activePresetId, pendingImage>>
    /\ Handled
    /\ UNCHANGED outsideEditor

\* cancelCrop 882
cancelCrop ==
    /\ cropActionsShown
    /\ cropRect' = <<>>
    /\ isCropping' = FALSE
    /\ UNCHANGED <<clock, tool, color, elements, selectedId, isDrawing,
                   currentElement, history, historyIndex, textInput,
                   textValue, elementCounter, image, presets, activePresetId,
                   pendingCrop, pendingImage>>
    /\ Handled
    /\ UNCHANGED outsideEditor

\* handleImageFileChange 787-820 up to reader.readAsDataURL: the callbacks
\* keep the elements, elementCounter and addToHistory of this render; at
\* most one upload is in flight
handleImageFileChange ==
    /\ PointerFree
    /\ pendingImage = <<>>
    /\ pendingImage' = << [elements |-> elements, history |-> history,
                           historyIndex |-> historyIndex,
                           elementCounter |-> elementCounter] >>
    /\ UNCHANGED <<clock, tool, color, elements, selectedId, isDrawing,
                   currentElement, history, historyIndex, textInput,
                   textValue, elementCounter, cropRect, isCropping, image,
                   presets, activePresetId, pendingCrop>>
    /\ Handled
    /\ UNCHANGED outsideEditor

\* img.onload of handleImageFileChange, 795-815, for a 20x20 image file
imageOnload(dt) ==
    /\ pendingImage # <<>>
    /\ LET c == pendingImage[1]
           newElement == DrawingElement(clock + dt, "image", 50, 50, <<>>,
                                        20, 20, "", "#000",
                                        <<"image", c.elementCounter>>)
           newElements == Append(c.elements, newElement)
           h == addToHistory(c.history, c.historyIndex, newElements)
       IN           /\ elements' = newElements
           /\ history' = h.history
           /\ historyIndex' = h.historyIndex
    /\ clock' = clock + dt
    /\ elementCounter' = elementCounter + 1
    /\ pendingImage' = <<>>
    /\ UNCHANGED <<tool, color, selectedId, isDrawing, currentElement,
                   textInput, textValue, cropRect, isCropping, image, presets,
                   activePresetId, pendingCrop>>
    /\ Handled
    /\ UNCHANGED outsideEditor

Next ==
    \/ NoActiveTab
    \/ NoDimensions
    \/ ReadDimensions
    \/ ScriptingLost
    \/ ScrollStep
    \/ ScrollStepFailed
    \/ HideBeforeCapture
    \/ CaptureFrame
    \/ CaptureError
    \/ HideAfterFirst
    \/ Advance
    \/ ExitLoop
    \/ NoFrames
    \/ Stitch
    \/ StitchError
    \/ Finally
    \/ StoreImage
    \/ StoreError
    \/ CreateTab
    \/ CreateTabError
    \/ CaptureRejected
    \/ CleanupAfterSuccess
    \/ CleanupAfterFailure
    \/ RespondSuccess
    \/ RespondFailure

Spec == Init /\ [][Next]_vars

----------------------------------------------------------------------------
(* The editor specifications.                                              *)

\* the capture pipeline is not running while the editor is used
CaptureIdle ==
    /\ pc = "done"
    /\ dimensions = [scrollHeight |-> 800, clientHeight |-> 800,
                     scrollX |-> 0, scrollY |-> 0, dpr2 |-> 2]
    /\ bitmapHeight = 800
    /\ page = [scrollX |-> 0, scrollY |-> 0, hidden |-> FALSE]
    /\ currentY = 800
    /\ iteration = 1
    /\ captures = <<0>>
    /\ restoreIssued = 1
    /\ canvas = [height |-> 800,
                 draws |-> << [frame |-> 1, sy |-> 0, dy |-> 0, h |-> 800] >>]
    /\ outcome = "stitched"
    /\ scriptable = TRUE
    /\ actualScrollY = 0
    /\ hc = [at |-> "responded", error |-> <<>>]
    /\ store = << canvas >>
    /\ editorTabs = 1
    /\ cleanups = 1
    /\ response = << [success |-> TRUE, error |-> ""] >>

InitEditor ==
    CaptureIdle /\ EditorInit /\ SelectionIdle /\ PrimingIdle /\ BlurIdle
    /\ TabRunsIdle
    /\ DomIdle
    /\ StageIdle
    /\ CsIdle
    /\ HandoffIdle
    /\ StylePresetsIdle

\* the committed mutations, gestures, undo and redo
NextCommitted ==
    \/ \E t \in ToolbarTools : SetTool(t)
    \/ \E pos \in PressPoints : CropMouseDown(pos)
    \/ \E pos \in PressPoints : TextMouseDown(pos)
    \/ \E pos \in PressPoints, dt \in 0..1 : DrawMouseDown(pos, dt)
    \/ \E pos \in Points : handleStageMouseMove(pos)
    \/ \E pos \in Points : handleCropMouseMove(pos)
    \/ handleCropMouseUp
    \/ handleStageMouseUp
    \/ \E v \in TextValues : TextChange(v)
    \/ \E dt \in 0..1 : handleTextSubmit(dt)
    \/ TextCancel
    \/ \E k \in 1..Len(elements) : handleElementClick(elements[k].id)
    \/ \E k \in 1..Len(elements), pos \in DropPoints : handleDragEnd(elements[k].id, pos)
    \/ \E k \in 1..Len(elements) : handleTransformEnd(elements[k].id, 2, 1)
    \/ \E k \in 1..Len(elements) : deleteElement(elements[k].id)
    \/ \E k \in 1..Len(elements), c \in Colors : UpdateColor(elements[k].id, c)
    \/ \E k \in 1..1 : applyPreset(k)
    \/ undo
    \/ redo
    \/ applyCrop
    \/ cropOnload
    \/ cancelCrop
    \/ handleImageFileChange
    \/ \E dt \in 0..1 : imageOnload(dt)

NextEditor ==
    \/ NextCommitted
    \/ \E k \in 1..Len(elements) : toggleVisibility(elements[k].id)

SpecEditor == InitEditor /\ [][NextEditor]_vars

\* the editor restricted to committed mutations
SpecCommitted == InitEditor /\ [][NextCommitted]_vars

----------------------------------------------------------------------------
(* The editor's preset operations on a document made of uploaded images.   *)

\* the templates shown in the menu
PresetSlots == 1..2

\* 238-240: the editor has loaded the preset list from the store
InitPresets ==
    /\ CaptureIdle
    /\ EditorInit
    /\ SelectionIdle
    /\ PrimingIdle
    /\ BlurIdle
    /\ StageIdle
    /\ DomIdle
    /\ TabRunsIdle
    /\ CsIdle
    /\ HandoffIdle
    /\ stylePresets = presets

NextPresets ==
    \/ handleImageFileChange
    \/ \E dt \in 0..1 : imageOnload(dt)
    \/ \E k \in PresetSlots : applyPreset(k)
    \/ saveCurrentAsPreset
    \/ \E k \in PresetSlots : deletePreset(k)
    \/ \E k \in PresetSlots : updatePreset(k)

SpecPresets == InitPresets /\ [][NextPresets]_vars

----------------------------------------------------------------------------
(* The specification of waitForSelection: a wait on tab 1 and the messages *)
(* that arrive during and after it.                                        *)

InitSelection ==
    /\ CaptureIdle
    /\ EditorInit
    /\ ws = NoWait
    /\ inbox \in SeqsUpTo(Messages, MaxMessages)
    /\ PrimingIdle
    /\ BlurIdle
    /\ HandoffIdle
    /\ StylePresetsIdle
    /\ CsIdle
    /\ TabRunsIdle
    /\ DomIdle
    /\ StageIdle

NextSelection ==
    \/ StartWait
    \/ DeliverMessage
    \/ TimerFires

SpecSelection == InitSelection /\ [][NextSelection]_vars

----------------------------------------------------------------------------
(* handleCapture for every mode, background.ts 42-132: the switch, the     *)
(* steps of captureVisibleTab and captureWithSelection, and the store, tab *)
(* and cleanup steps shared with the full-page mode.  The full-page run is *)
(* taken as finished, with either outcome.                                 *)

Modes == {"visible", "selection", "fullpage", "bogus"}

CaptureErrors ==
    {"error: No active tab", "error: capture failed", "error: storage"}

\* 45-58: the switch on mode
DispatchMode(mode) ==
    /\ hc.at = "switch"
    /\ hc' = CASE mode = "visible"   -> [hc EXCEPT !.at = "captureVisibleTab"]
               [] mode = "selection" -> [hc EXCEPT !.at = "captureWithSelection"]
               [] mode = "fullpage"  -> [hc EXCEPT !.at = "captureFullPage"]
               [] OTHER -> [at |-> "catch",
                            error |-> << "error: Unknown capture mode" >>]
    /\ UNCHANGED <<store, editorTabs, cleanups, response>>
    /\ UNCHANGED CaptureVarsOfRun
    /\ UNCHANGED outsideCapture

\* 72-88, 60: captureVisibleTab resolved and the image is stored
VisibleCaptured ==
    /\ hc.at = "captureVisibleTab"
    /\ store' = << [mode |-> "visible"] >>
    /\ hc' = [hc EXCEPT !.at = "createTab"]
    /\ UNCHANGED <<editorTabs, cleanups, response>>
    /\ UNCHANGED CaptureVarsOfRun
    /\ UNCHANGED outsideCapture

\* 73-74, 80-81, 60: no active tab, chrome.runtime.lastError, or
\* browser.storage.local.set rejected
VisibleFailed(error) ==
    /\ hc.at = "captureVisibleTab"
    /\ hc' = [at |-> "catch", error |-> << error >>]
    /\ UNCHANGED <<store, editorTabs, cleanups, response>>
    /\ UNCHANGED CaptureVarsOfRun
    /\ UNCHANGED outsideCapture

\* 91-92: captureWithSelection finds no active tab
SelectionNoTab ==
    /\ hc.at = "captureWithSelection"
    /\ hc' = [at |-> "catch", error |-> << "error: No active tab" >>]
    /\ UNCHANGED <<store, editorTabs, cleanups, response>>
    /\ UNCHANGED CaptureVarsOfRun
    /\ UNCHANGED outsideCapture

\* 94-113: the content script is injected if it can be, 'start-selection'
\* is sent and received
SelectionStarted ==
    /\ hc.at = "captureWithSelection"
    /\ hc' = [hc EXCEPT !.at = "waitForSelection"]
    /\ UNCHANGED <<store, editorTabs, cleanups, response>>
    /\ UNCHANGED CaptureVarsOfRun
    /\ UNCHANGED outsideCapture

\* 109-113: sendMessage('start-selection') rejected
SelectionConnectFailed ==
    /\ hc.at = "captureWithSelection"
    /\ hc' = [at |-> "catch",
              error |-> << "error: Could not connect to the page" >>]
    /\ UNCHANGED <<store, editorTabs, cleanups, response>>
    /\ UNCHANGED CaptureVarsOfRun
    /\ UNCHANGED outsideCapture

\* 115: waitForSelection(tab.id) is called
SelectionWait ==
    /\ hc.at = "waitForSelection"
    /\ StartWait

\* 115: the promise of waitForSelection rejected (canceled, timeout)
SelectionRejected ==
    /\ hc.at = "waitForSelection"
    /\ ws.outcome # <<>>
    /\ ws.outcome[1] \in {"error: Selection canceled",
                          "error: Selection timeout"}
    /\ hc' = [at |-> "catch", error |-> ws.outcome]
    /\ UNCHANGED <<store, editorTabs, cleanups, response>>
    /\ UNCHANGED CaptureVarsOfRun
    /\ UNCHANGED outsideCapture

\* 115-131, 60: a rect was selected, the viewport captured and cropped, and
\* the image is stored
SelectionCaptured ==
    /\ hc.at = "waitForSelection"
    /\ ws.outcome # <<>>
    /\ ws.outcome[1] \notin {"error: Selection canceled",
                             "error: Selection timeout"}
    /\ store' = << [mode |-> "selection", rect |-> ws.outcome[1]] >>
    /\ hc' = [hc EXCEPT !.at = "createTab"]
    /\ UNCHANGED <<editorTabs, cleanups, response>>
    /\ UNCHANGED CaptureVarsOfRun
    /\ UNCHANGED outsideCapture

\* 118-131, 60: a rect was selected but captureVisibleTab, cropImage or
\* browser.storage.local.set rejected
SelectionCaptureFailed(error) ==
    /\ hc.at = "waitForSelection"
    /\ ws.outcome # <<>>
    /\ ws.outcome[1] \notin {"error: Selection canceled",
                             "error: Selection timeout"}
    /\ hc' = [at |-> "catch", error |-> << error >>]
    /\ UNCHANGED <<store, editorTabs, cleanups, response>>
    /\ UNCHANGED CaptureVarsOfRun
    /\ UNCHANGED outsideCapture

InitHandleCapture ==
    /\ pc = "done"
    /\ dimensions = [scrollHeight |-> 800, clientHeight |-> 800,
                     scrollX |-> 0, scrollY |-> 0, dpr2 |-> 2]
    /\ bitmapHeight = 800
    /\ page = [scrollX |-> 0, scrollY |-> 0, hidden |-> FALSE]
    /\ \/ /\ outcome = "stitched"
          /\ captures = <<0>>
          /\ canvas = [height |-> 800,
                       draws |-> << [frame |-> 1, sy |-> 0, dy |-> 0,
                                     h |-> 800] >>]
          /\ currentY = 800
       \/ /\ outcome = "error: Could not get page dimensions"
          /\ captures = <<>>
          /\ canvas = NoCanvas
          /\ currentY = 0
    /\ iteration = 1
    /\ restoreIssued = 1
    /\ scriptable = TRUE
    /\ actualScrollY = 0
    /\ hc = [at |-> "switch", error |-> <<>>]
    /\ store = <<>>
    /\ editorTabs = 0
    /\ cleanups = 0
    /\ response = <<>>
    /\ EditorInit
    /\ ws = NoWait
    /\ inbox \in SeqsUpTo(Messages, MaxMessages)
    /\ PrimingIdle
    /\ BlurIdle
    /\ HandoffIdle
    /\ StylePresetsIdle
    /\ CsIdle
    /\ StageIdle
    /\ DomIdle
    /\ TabRunsIdle

NextHandleCapture ==
    \/ \E mode \in Modes : DispatchMode(mode)
    \/ VisibleCaptured
    \/ \E error \in CaptureErrors : VisibleFailed(error)
    \/ SelectionNoTab
    \/ SelectionStarted
    \/ SelectionConnectFailed
    \/ SelectionWait
    \/ DeliverMessage
    \/ TimerFires
    \/ SelectionRejected
    \/ SelectionCaptured
    \/ \E error \in CaptureErrors \ {"error: No active tab"} :
          SelectionCaptureFailed(error)
    \/ StoreImage
    \/ StoreError
    \/ CaptureRejected
    \/ CreateTab
    \/ CreateTabError
    \/ CleanupAfterSuccess
    \/ CleanupAfterFailure
    \/ RespondSuccess
    \/ RespondFailure

SpecHandleCapture == InitHandleCapture /\ [][NextHandleCapture]_vars

----------------------------------------------------------------------------
(* Lazy-load priming, wxt.config.ts 257-297: the function injected into    *)
(* the page before the frames are captured.                                *)

\* 270: the loop runs while sameHeightCount < 3
StableSteps == 3
\* 289: the safety limit on currentY
SafetyLimit == 100000

\* window.innerHeight and the initial scroll height of the pages primed
PrimedViewports == {800, 1000}
PrimedHeights == {1000, 3000}
\* what lazy loading adds to the page during one delay, if anything
Growths == {0, 1000}
\* window.scrollY when the user asks for the capture
PrimedScrolls == {0, 200}

\* 271: window.scrollTo clamps to the scrollable range
primeScroll(y, height, viewportHeight) == Max(0, Min(y, height - viewportHeight))

\* 263-267: the function starts
StartPriming ==
    /\ prime.pc = "idle"
    /\ \E v \in PrimedViewports, h \in PrimedHeights, u \in PrimedScrolls :
          prime' = [NoPriming EXCEPT !.pc = "loop", !.viewportHeight = v,
                                     !.pageHeight = h, !.scrollY = u,
                                     !.userScrollY = u]
    /\ UNCHANGED outsidePriming

\* one iteration of the loop that does not reset the count when the height
\* has changed
PrimeStepNoReset(grown) ==
    /\ prime.pc = "loop"
    /\ LET newHeight == prime.pageHeight + grown
           count == IF newHeight = prime.lastHeight
                    THEN prime.sameHeightCount + 1
                    ELSE prime.sameHeightCount
           y == prime.currentY + prime.viewportHeight
       IN  prime' = [prime EXCEPT
                        !.scrollY = primeScroll(prime.currentY, prime.pageHeight,
                                                prime.viewportHeight),
                        !.pageHeight = newHeight,
                        !.sameHeightCount = count,
                        !.lastHeight = newHeight,
                        !.currentY = y,
                        !.steps = prime.steps + 1,
                        !.pc = IF y > SafetyLimit \/ ~(count < StableSteps)
                               THEN "afterLoop" ELSE "loop"]
    /\ UNCHANGED outsidePriming

\* 270-290: one iteration of the loop: scroll, wait while the page may load
\* more content, read the height, count, advance, test the safety limit and
\* the loop condition
PrimeStep(grown) ==
    /\ prime.pc = "loop"
    /\ LET newHeight == prime.pageHeight + grown
           count == IF newHeight = prime.lastHeight
                    THEN prime.sameHeightCount + 1
                    ELSE 0
           y == prime.currentY + prime.viewportHeight
       IN  prime' = [prime EXCEPT
                        !.scrollY = primeScroll(prime.currentY, prime.pageHeight,
                                                prime.viewportHeight),
                        !.pageHeight = newHeight,
                        !.sameHeightCount = count,
                        !.lastHeight = newHeight,
                        !.currentY = y,
                        !.steps = prime.steps + 1,
                        !.pc = IF y > SafetyLimit \/ ~(count < StableSteps)
                               THEN "afterLoop" ELSE "loop"]
    /\ UNCHANGED outsidePriming

\* the function ends where the loop left the page
PrimeFinishWithoutScroll ==
    /\ prime.pc = "afterLoop"
    /\ prime' = [prime EXCEPT !.pc = "done"]
    /\ UNCHANGED outsidePriming

\* 293: scroll back to the top
PrimeFinish ==
    /\ prime.pc = "afterLoop"
    /\ prime' = [prime EXCEPT !.scrollY = 0, !.pc = "done"]
    /\ UNCHANGED outsidePriming

\* 299-341: after priming the page metrics are read, scrollY among them
PrimedReadDimensions ==
    /\ prime.pc = "done"
    /\ prime' = [prime EXCEPT !.originalScrollY = prime.scrollY,
                              !.pc = "frames"]
    /\ UNCHANGED outsidePriming

\* 345-440: the frame loop leaves the page scrolled to its last frame
PrimedFrameLoop ==
    /\ prime.pc = "frames"
    /\ prime' = [prime EXCEPT
                    !.scrollY = primeScroll(prime.pageHeight, prime.pageHeight,
                                            prime.viewportHeight),
                    !.pc = "finally"]
    /\ UNCHANGED outsidePriming

\* 441-460: the finally block scrolls to originalScrollY
PrimedFinally ==
    /\ prime.pc = "finally"
    /\ prime' = [prime EXCEPT !.scrollY = prime.originalScrollY,
                              !.pc = "restored"]
    /\ UNCHANGED outsidePriming

InitPriming ==
    /\ CaptureIdle
    /\ EditorInit
    /\ SelectionIdle
    /\ PrimingIdle
    /\ BlurIdle
    /\ HandoffIdle
    /\ StylePresetsIdle
    /\ CsIdle
    /\ TabRunsIdle
    /\ DomIdle
    /\ StageIdle

NextPriming ==
    \/ StartPriming
    \/ \E grown \in Growths : PrimeStep(grown)
    \/ PrimeFinish
    \/ PrimedReadDimensions
    \/ PrimedFrameLoop
    \/ PrimedFinally

SpecPriming == InitPriming /\ [][NextPriming]_vars

\* the injected function keeps running: its delays end and its loop goes on
SpecPrimingFair == SpecPriming /\ WF_vars(NextPriming)

----------------------------------------------------------------------------
(* One PixelatedBlur component: the effect that pixelates the region of   *)
(* the base bitmap under its bounds, and the image loads the effect        *)
(* starts.                                                                 *)

\* the base bitmaps the component is given: the captured one, a cropped one
BlurImages == {"captured", "cropped"}

\* bounds of the blur element, as committed by a gesture, a drag end or a
\* transform end
BlurBounds == { [x |-> 10, y |-> 10, width |-> 40, height |-> 30],
                [x |-> 25, y |-> 10, width |-> 40, height |-> 30],
                [x |-> 10, y |-> 10, width |-> 80, height |-> 60],
                [x |-> 10, y |-> 10, width |-> 0,  height |-> 30] }

\* the pixels the effect produces, named by what they are drawn from: the
\* region (x, y, width, height) of the image, in blocks of 12
pixelate(img, b) ==
    [image |-> img, x |-> b.x, y |-> b.y, width |-> b.width,
     height |-> b.height, pixelSize |-> 12]

\* the effect body: nothing for an empty region, otherwise a new Image whose
\* load is pending
blurEffect(bl) ==
    IF bl.image = "" \/ bl.bounds.width <= 0 \/ bl.bounds.height <= 0
    THEN bl
    ELSE [bl EXCEPT !.loading = @ \cup {pixelate(bl.image, bl.bounds)}]

\* a blur element is rendered for the first time
BlurMount(img, b) ==
    /\ ~blur.mounted
    /\ blur' = blurEffect([blur EXCEPT !.mounted = TRUE, !.image = img,
                                       !.bounds = b])
    /\ UNCHANGED outsideBlur

\* the element's x, y, width or height changed: the effect runs again
BlurBoundsChange(b) ==
    /\ blur.mounted
    /\ b # blur.bounds
    /\ blur' = blurEffect([blur EXCEPT !.bounds = b])
    /\ UNCHANGED outsideBlur

\* the base bitmap was replaced: the effect runs again
BlurImageChange(img) ==
    /\ blur.mounted
    /\ img # blur.image
    /\ blur' = blurEffect([blur EXCEPT !.image = img])
    /\ UNCHANGED outsideBlur

\* img.onload of one of the loads started by the effect; the loads of
\* different effect runs complete in any order
BlurOnload(content) ==
    /\ content \in blur.loading
    /\ blur' = [blur EXCEPT !.blurredImage = << content >>,
                            !.loading = @ \ {content}]
    /\ UNCHANGED outsideBlur

InitBlur ==
    /\ CaptureIdle
    /\ EditorInit
    /\ SelectionIdle
    /\ PrimingIdle
    /\ BlurIdle
    /\ HandoffIdle
    /\ StylePresetsIdle
    /\ CsIdle
    /\ TabRunsIdle
    /\ DomIdle
    /\ StageIdle

NextBlur ==
    \/ \E img \in BlurImages, b \in BlurBounds : BlurMount(img, b)
    \/ \E b \in BlurBounds : BlurBoundsChange(b)
    \/ \E img \in BlurImages : BlurImageChange(img)
    \/ \E img \in BlurImages, b \in BlurBounds : BlurOnload(pixelate(img, b))

SpecBlur == InitBlur /\ [][NextBlur]_vars

----------------------------------------------------------------------------
(* The Stage the document is drawn on, the zoom controls and the export    *)
(* of the stage by handleDownload and handleCopy. zoom is kept in percent. *)

MaxExports == 2

CeilDiv(a, b) == -((-a) \div b)

\* the zoom that fits the image into the container, at most 1 and at least
\* 0.1
fitZoom(size, c) ==
    Max(10, Min(Min(((c.clientWidth - 40) * 100) \div size.width,
                    ((c.clientHeight - 40) * 100) \div size.height), 100))

\* width and height props of the Stage: its on-screen size
stageWidth(st) == CeilDiv(st.stageSize.width * st.zoom, 100)
stageHeight(st) == CeilDiv(st.stageSize.height * st.zoom, 100)

\* stage.toDataURL() without a pixelRatio: an image of the stage's size
toDataURL(st) == [width |-> stageWidth(st), height |-> stageHeight(st)]

editorVarsButSelectedId ==
    <<clock, tool, color, elements, isDrawing, currentElement, history,
      historyIndex, textInput, textValue, elementCounter, cropRect,
      isCropping, image, presets, activePresetId, pendingCrop, pendingImage,
      events>>

\* the timer started when the image loaded sets the zoom that fits
FitTimerFires ==
    /\ stage.fitTimer
    /\ stage' = [stage EXCEPT !.zoom = fitZoom(stage.stageSize,
                                               stage.container),
                              !.fitTimer = FALSE]
    /\ UNCHANGED editorVars
    /\ UNCHANGED outsideStage

ZoomOut ==
    /\ stage' = [stage EXCEPT !.zoom = Max(10, @ - 10)]
    /\ UNCHANGED editorVars
    /\ UNCHANGED outsideStage

ZoomIn ==
    /\ stage' = [stage EXCEPT !.zoom = Min(300, @ + 10)]
    /\ UNCHANGED editorVars
    /\ UNCHANGED outsideStage

ZoomReset ==
    /\ stage' = [stage EXCEPT !.zoom = 100]
    /\ UNCHANGED editorVars
    /\ UNCHANGED outsideStage

\* the selection is cleared and the export is left to a 100 ms timer
handleDownload ==
    /\ Len(stage.exportTimers) < MaxExports
    /\ selectedId' = <<>>
    /\ stage' = [stage EXCEPT !.exportTimers = Append(@, "download")]
    /\ UNCHANGED editorVarsButSelectedId
    /\ UNCHANGED outsideStage

handleCopy ==
    /\ Len(stage.exportTimers) < MaxExports
    /\ selectedId' = <<>>
    /\ stage' = [stage EXCEPT !.exportTimers = Append(@, "copy")]
    /\ UNCHANGED editorVarsButSelectedId
    /\ UNCHANGED outsideStage

\* the timer of the oldest pending export fires: the stage is exported as it
\* is now
ExportTimerFires ==
    /\ stage.exportTimers # <<>>
    /\ stage' = [stage EXCEPT
                   !.exported = << [kind |-> Head(stage.exportTimers),
                                    image |-> toDataURL(stage)] >>,
                   !.exportTimers = Tail(@)]
    /\ UNCHANGED editorVars
    /\ UNCHANGED outsideStage

InitStage ==
    /\ CaptureIdle
    /\ EditorInit
    /\ SelectionIdle
    /\ PrimingIdle
    /\ BlurIdle
    /\ HandoffIdle
    /\ StylePresetsIdle
    /\ CsIdle
    /\ TabRunsIdle
    /\ DomIdle
    /\ stage \in { StageOnLoad(c) : c \in Containers }

NextStage ==
    \/ FitTimerFires
    \/ ZoomOut
    \/ ZoomIn
    \/ ZoomReset
    \/ handleDownload
    \/ handleCopy
    \/ ExportTimerFires

SpecStage == InitStage /\ [][NextStage]_vars

----------------------------------------------------------------------------
(* The functions injected by hideFloatingElements and by the finally block *)
(* of captureFullPage, on a page of three elements.  dom.original and      *)
(* dom.hides record the page before the run and the hides applied.         *)

MaxHides == 3

\* parent of each element of the page, 0 for a child of body: element 2 is
\* a descendant of element 1
DomParents == <<0, 1, 0>>

\* inline visibility, opacity and display of an element
InlineStyles == { [visibility |-> "", opacity |-> "", display |-> ""],
                  [visibility |-> "visible", opacity |-> "0.5",
                   display |-> "flex"] }

\* an element: whether its computed position is fixed or sticky, whether it
\* carries the class wxt-screenshot-hidden, and its inline styles
DomElements == [floating : BOOLEAN, marked : {FALSE}, inline : InlineStyles]

\* the function injected by hideFloatingElements: one style tag, and the
\* marker class on every fixed or sticky element and on its descendants
hideFunc(d) ==
    [d EXCEPT
       !.styleTags = IF d.styleTags = 0 THEN 1 ELSE d.styleTags,
       !.elements = [i \in 1..Len(d.elements) |->
                       IF \/ d.elements[i].floating
                          \/ /\ DomParents[i] # 0
                             /\ d.elements[DomParents[i]].floating
                       THEN [d.elements[i] EXCEPT !.marked = TRUE]
                       ELSE d.elements[i]]]

\* the function injected by the finally block: the style tag is removed,
\* each marked element loses the class and its inline visibility, opacity
\* and display are set to ''
restoreFunc(d) ==
    [d EXCEPT
       !.styleTags = IF d.styleTags > 0 THEN d.styleTags - 1 ELSE 0,
       !.elements = [i \in 1..Len(d.elements) |->
                       IF d.elements[i].marked
                       THEN [d.elements[i] EXCEPT
                               !.marked = FALSE,
                               !.inline = [visibility |-> "", opacity |-> "",
                                           display |-> ""]]
                       ELSE d.elements[i]]]

DomHide ==
    /\ ~dom.restored
    /\ dom.hides < MaxHides
    /\ dom' = [hideFunc(dom) EXCEPT !.hides = @ + 1]
    /\ UNCHANGED outsideDom

DomRestore ==
    /\ ~dom.restored
    /\ dom' = [restoreFunc(dom) EXCEPT !.restored = TRUE]
    /\ UNCHANGED outsideDom

InitDom ==
    /\ CaptureIdle
    /\ EditorInit
    /\ SelectionIdle
    /\ PrimingIdle
    /\ BlurIdle
    /\ HandoffIdle
    /\ StylePresetsIdle
    /\ CsIdle
    /\ TabRunsIdle
    /\ StageIdle
    /\ \E els \in [1..Len(DomParents) -> DomElements] :
          dom = [styleTags |-> 0, elements |-> els, original |-> els,
                 hides |-> 0, restored |-> FALSE]

NextDom ==
    \/ DomHide
    \/ DomRestore

SpecDom == InitDom /\ [][NextDom]_vars

----------------------------------------------------------------------------
(* Two 'capture' requests for full-page captures of the same tab: each one *)
(* makes the listener call handleCapture, which runs captureFullPage.  The *)
(* steps are those of captureFullPage that act on the page.                *)

\* pages of the tab: scrollHeight, clientHeight and the user's scroll offset
TabPages == { [scrollHeight |-> 1600, clientHeight |-> 800, scrollY |-> 0],
              [scrollHeight |-> 2000, clientHeight |-> 800, scrollY |-> 300] }

InProgress(r) == tabRuns.run[r].pc \notin {"idle", "done"}

\* onMessage 20-33: a 'capture' message starts handleCapture at once
CaptureRequest(r) ==
    /\ tabRuns.run[r].pc = "idle"
    /\ tabRuns' = [tabRuns EXCEPT !.run[r].pc = "dimensions"]
    /\ UNCHANGED outsideTabRuns

\* 200-223: page metrics read
RunReadDimensions(r) ==
    /\ tabRuns.run[r].pc = "dimensions"
    /\ tabRuns' = [tabRuns EXCEPT
                     !.run[r].scrollHeight = tabRuns.page.scrollHeight,
                     !.run[r].clientHeight = tabRuns.page.clientHeight,
                     !.run[r].originalScrollY = tabRuns.page.scrollY,
                     !.run[r].pc = "loop"]
    /\ UNCHANGED outsideTabRuns

\* 230-249: scroll to currentY and read back window.scrollY
RunScrollStep(r) ==
    /\ tabRuns.run[r].pc = "loop"
    /\ tabRuns.run[r].currentY < tabRuns.run[r].scrollHeight
    /\ LET y == ClampScroll(tabRuns.run[r].currentY, tabRuns.page)
           it == tabRuns.run[r].iteration + 1
       IN  tabRuns' = [tabRuns EXCEPT
                         !.page.scrollY = y,
                         !.run[r].iteration = it,
                         !.run[r].actualScrollY = y,
                         !.run[r].pc = IF it > 1 THEN "hideBefore"
                                                 ELSE "capture"]
    /\ UNCHANGED outsideTabRuns

\* 255-259 and 275-279: hideFloatingElements
RunHide(r) ==
    /\ tabRuns.run[r].pc \in {"hideBefore", "hideAfter"}
    /\ tabRuns' = [tabRuns EXCEPT
                     !.page.hidden = TRUE,
                     !.run[r].pc = IF tabRuns.run[r].pc = "hideBefore"
                                   THEN "capture" ELSE "advance"]
    /\ UNCHANGED outsideTabRuns

\* 262-271: the visible viewport is captured and pushed with actualScrollY;
\* shows is the offset the page was at when the picture was taken
RunCaptureFrame(r) ==
    /\ tabRuns.run[r].pc = "capture"
    /\ tabRuns' = [tabRuns EXCEPT
                     !.run[r].captures =
                         Append(@, [y |-> tabRuns.run[r].actualScrollY,
                                    shows |-> tabRuns.page.scrollY]),
                     !.run[r].pc = IF tabRuns.run[r].iteration = 1
                                   THEN "hideAfter" ELSE "advance"]
    /\ UNCHANGED outsideTabRuns

\* 281-282
RunAdvance(r) ==
    /\ tabRuns.run[r].pc = "advance"
    /\ tabRuns' = [tabRuns EXCEPT
                     !.run[r].currentY = @ + tabRuns.run[r].clientHeight,
                     !.run[r].pc = IF tabRuns.run[r].iteration > MaxIterations
                                   THEN "finally" ELSE "loop"]
    /\ UNCHANGED outsideTabRuns

\* 230: the loop test fails; the frames are stitched without the page
RunExitLoop(r) ==
    /\ tabRuns.run[r].pc = "loop"
    /\ ~(tabRuns.run[r].currentY < tabRuns.run[r].scrollHeight)
    /\ tabRuns' = [tabRuns EXCEPT !.run[r].pc = "finally"]
    /\ UNCHANGED outsideTabRuns

\* 294-313: the hide styling is removed and the page scrolled back
RunFinally(r) ==
    /\ tabRuns.run[r].pc = "finally"
    /\ tabRuns' = [tabRuns EXCEPT
                     !.page.hidden = FALSE,
                     !.page.scrollY = tabRuns.run[r].originalScrollY,
                     !.run[r].pc = "done"]
    /\ UNCHANGED outsideTabRuns

InitTabRuns ==
    /\ CaptureIdle
    /\ EditorInit
    /\ SelectionIdle
    /\ PrimingIdle
    /\ BlurIdle
    /\ HandoffIdle
    /\ StylePresetsIdle
    /\ CsIdle
    /\ StageIdle
    /\ DomIdle
    /\ \E p \in TabPages :
          tabRuns = [NoTabRuns EXCEPT
                       !.page = [scrollHeight |-> p.scrollHeight,
                                 clientHeight |-> p.clientHeight,
                                 scrollY |-> p.scrollY, hidden |-> FALSE]]

NextTabRuns ==
    \E r \in Requests :
       \/ CaptureRequest(r)
       \/ RunReadDimensions(r)
       \/ RunScrollStep(r)
       \/ RunHide(r)
       \/ RunCaptureFrame(r)
       \/ RunAdvance(r)
       \/ RunExitLoop(r)
       \/ RunFinally(r)

SpecTabRuns == InitTabRuns /\ [][NextTabRuns]_vars

----------------------------------------------------------------------------
(* The content script, content.ts 89-343, in one page, and the selection   *)
(* requests of captureWithSelection, background.ts 90-155, that talk to    *)
(* it.  Every function of the script is an operator on the record cs: the  *)
(* state of the page before, the instance whose closure runs, the result.  *)

\* positions the pointer is reported at
PointerPositions == { <<10, 10>>, <<12, 12>>, <<40, 40>> }

\* at most this many user events are handled by the page
MaxPageEvents == 8

\* browser.runtime.sendMessage({ type: 'selection-complete', ... })
sendMessage(c, message) ==
    [c EXCEPT !.outbox = Append(c.outbox, message),
              !.sentSinceStart = c.sentSinceStart + 1]

\* cleanup 297-341: every root and stray element is removed from the
\* document, the variables and the document listeners of this instance are
\* reset; selectRect, startX/Y and offsetX/Y are not
cleanup(c, i) ==
    [c EXCEPT !.dom = {},
              !.inst[i].overlay = FALSE,
              !.inst[i].box = FALSE,
              !.inst[i].actions = FALSE,
              !.inst[i].listeners = FALSE,
              !.inst[i].isSelecting = FALSE,
              !.inst[i].isResizing = FALSE,
              !.inst[i].isMoving = FALSE]

\* createSelectionOverlay 135-152
createSelectionOverlay(c, i) ==
    LET d == cleanup(c, i)
    IN  [d EXCEPT !.dom = {i},
                  !.inst[i].overlay = TRUE,
                  !.inst[i].listeners = TRUE]

\* createActions 170-200
createActions(c, i) ==
    IF ~c.inst[i].box \/ c.inst[i].actions THEN c
    ELSE [c EXCEPT !.inst[i].actions = TRUE]

\* handleMouseDown 202-229
handleMouseDown(c, i, pos) ==
    IF c.inst[i].actions THEN c
    ELSE [c EXCEPT !.inst[i].isSelecting = TRUE,
                   !.inst[i].start = pos,
                   !.inst[i].box = TRUE]

\* the resize of 242-255 for the handle 'se'
resized(r, pos) ==
    LET w == pos[1] - r.x
        h == pos[2] - r.y
    IN  [x |-> IF w < 1 THEN r.x + w - 1 ELSE r.x,
         y |-> IF h < 1 THEN r.y + h - 1 ELSE r.y,
         w |-> IF w < 1 THEN 1 ELSE w,
         h |-> IF h < 1 THEN 1 ELSE h]

\* handleMouseMove 231-269
handleMouseMove(c, i, pos) ==
    LET v == c.inst[i]
    IN  IF ~v.isSelecting /\ ~v.isResizing /\ ~v.isMoving THEN c
        ELSE IF ~v.box THEN c
        ELSE IF v.isSelecting
             THEN [c EXCEPT !.inst[i].selectRect =
                      [x |-> Min(v.start[1], pos[1]),
                       y |-> Min(v.start[2], pos[2]),
                       w |-> Max(1, Abs(pos[1] - v.start[1])),
                       h |-> Max(1, Abs(pos[2] - v.start[2]))]]
        ELSE IF v.isResizing
             THEN [c EXCEPT !.inst[i].selectRect = resized(v.selectRect, pos)]
        ELSE [c EXCEPT !.inst[i].selectRect.x = pos[1] - v.offset[1],
                       !.inst[i].selectRect.y = pos[2] - v.offset[2]]

\* handleMouseUp 271-284
handleMouseUp(c, i) ==
    LET v == c.inst[i]
        d == IF ~v.isSelecting THEN c
             ELSE IF v.selectRect.w > 5 /\ v.selectRect.h > 5
                  THEN createActions([c EXCEPT !.inst[i].isSelecting = FALSE], i)
                  ELSE cleanup(c, i)
    IN  [d EXCEPT !.inst[i].isResizing = FALSE, !.inst[i].isMoving = FALSE]

\* the message of confirmBtn.onclick 182-184 and of Enter 291-293
rectMessage(r) ==
    [canceled |-> FALSE, rect |-> << [x |-> r.x, y |-> r.y, width |-> r.w,
                                     height |-> r.h] >>]

canceledMessage == [canceled |-> TRUE, rect |-> <<>>]

\* confirmBtn.onclick 179-185
confirmClick(c, i) ==
    sendMessage(cleanup(c, i), rectMessage(c.inst[i].selectRect))

\* cancelBtn.onclick 190-195
cancelClick(c, i) == sendMessage(cleanup(c, i), canceledMessage)

\* handleKeyDown 286-295
handleKeyDown(c, i, key) ==
    IF key = "Escape" THEN cancelClick(c, i)
    ELSE IF key = "Enter" /\ c.inst[i].actions THEN confirmClick(c, i)
    ELSE c

\* an event of the document is handled by the listeners of every instance
\* that had them installed when the event was dispatched
dispatched(c, handler(_, _)) ==
    LET c1 == IF c.inst[1].listeners THEN handler(c, 1) ELSE c
    IN  IF c.inst[2].listeners THEN handler(c1, 2) ELSE c1

\* a runtime message is handled by the listener 126-133 of every instance
received(c, handler(_, _)) ==
    LET c1 == IF c.inst[1].loaded THEN handler(c, 1) ELSE c
    IN  IF c.inst[2].loaded THEN handler(c1, 2) ELSE c1

\* a main() without the window flag
mainIgnoringFlag(c, i) ==
    [c EXCEPT !.flag = TRUE, !.inst[i].loaded = TRUE]

\* main 91-94: the window flag lets one run of main() go on
main(c, i) ==
    IF c.flag THEN c
    ELSE [c EXCEPT !.flag = TRUE, !.inst[i].loaded = TRUE]

\* one more user event is handled by the page
PageEvent(c) == [c EXCEPT !.events = c.events + 1]

\* the pointer is pressed on the overlay, outside the box
OverlayMouseDown(pos) ==
    /\ cs.events < MaxPageEvents
    /\ ~cs.down
    /\ cs.dom # {}
    /\ \E i \in cs.dom :
          cs' = PageEvent([handleMouseDown(cs, i, pos) EXCEPT !.down = TRUE])
    /\ UNCHANGED outsideCs

\* the pointer is pressed on the selection box, 215-222
BoxMouseDown(pos) ==
    /\ cs.events < MaxPageEvents
    /\ ~cs.down
    /\ \E i \in cs.dom :
          LET v == cs.inst[i]
          IN  /\ v.box /\ v.actions /\ ~v.isResizing
              /\ pos[1] >= v.selectRect.x
              /\ pos[1] <= v.selectRect.x + v.selectRect.w
              /\ pos[2] >= v.selectRect.y
              /\ pos[2] <= v.selectRect.y + v.selectRect.h
              /\ cs' = PageEvent(
                    [cs EXCEPT !.down = TRUE,
                               !.inst[i].isMoving = TRUE,
                               !.inst[i].offset =
                                   << pos[1] - v.selectRect.x,
                                      pos[2] - v.selectRect.y >>])
    /\ UNCHANGED outsideCs

\* the pointer is pressed on the handle 'se', 160-165
HandleMouseDown ==
    /\ cs.events < MaxPageEvents
    /\ ~cs.down
    /\ \E i \in cs.dom :
          /\ cs.inst[i].box /\ cs.inst[i].actions
          /\ cs' = PageEvent([cs EXCEPT !.down = TRUE,
                                        !.inst[i].isResizing = TRUE])
    /\ UNCHANGED outsideCs

\* mousemove on the document
DocumentMouseMove(pos) ==
    /\ cs.events < MaxPageEvents
    /\ cs.down
    /\ LET move(c, i) == handleMouseMove(c, i, pos)
       IN  cs' = PageEvent(dispatched(cs, move))
    /\ UNCHANGED outsideCs

\* mouseup on the document
DocumentMouseUp ==
    /\ cs.events < MaxPageEvents
    /\ cs.down
    /\ cs' = PageEvent([dispatched(cs, handleMouseUp) EXCEPT !.down = FALSE])
    /\ UNCHANGED outsideCs

\* keydown on the document
DocumentKeyDown(key) ==
    /\ cs.events < MaxPageEvents
    /\ ~cs.down
    /\ \E i \in Instances : cs.inst[i].listeners
    /\ LET press(c, i) == handleKeyDown(c, i, key)
       IN  cs' = PageEvent(dispatched(cs, press))
    /\ UNCHANGED outsideCs

\* a click on the confirm button
ConfirmClick ==
    /\ cs.events < MaxPageEvents
    /\ ~cs.down
    /\ \E i \in cs.dom :
          /\ cs.inst[i].actions
          /\ cs' = PageEvent(confirmClick(cs, i))
    /\ UNCHANGED outsideCs

\* a click on the cancel button
CancelClick ==
    /\ cs.events < MaxPageEvents
    /\ ~cs.down
    /\ \E i \in cs.dom :
          /\ cs.inst[i].actions
          /\ cs' = PageEvent(cancelClick(cs, i))
    /\ UNCHANGED outsideCs

\* captureWithSelection 94-106: the content script is injected
RequestInject(r) ==
    /\ cs.req[r].at = "idle"
    /\ cs' = [main(cs, r) EXCEPT !.req[r].at = "injected"]
    /\ UNCHANGED outsideCs

\* 108-113: 'start-selection' is sent and handled by the page, 126-129
RequestStartSelection(r) ==
    /\ cs.req[r].at = "injected"
    /\ cs' = [received(cs, createSelectionOverlay)
                 EXCEPT !.req[r].at = "started",
                        !.starts = cs.starts + 1,
                        !.sentSinceStart = 0]
    /\ UNCHANGED outsideCs

\* 115, 135-153: waitForSelection registers its listener
RequestWait(r) ==
    /\ cs.req[r].at = "started"
    /\ cs' = [cs EXCEPT !.req[r].at = "waiting"]
    /\ UNCHANGED outsideCs

\* 141-151: a 'selection-complete' message of the page is dispatched to the
\* listeners registered at that time
DeliverSelectionComplete ==
    /\ cs.outbox # <<>>
    /\ LET message == Head(cs.outbox)
       IN  cs' = [cs EXCEPT
                    !.outbox = Tail(cs.outbox),
                    !.req = [r \in Requests |->
                               IF cs.req[r].at # "waiting" THEN cs.req[r]
                               ELSE IF message.canceled
                                    THEN [cs.req[r] EXCEPT !.at = "rejected"]
                                    ELSE [cs.req[r] EXCEPT !.at = "delay",
                                                           !.rect = message.rect]]]
    /\ UNCHANGED outsideCs

\* 136-139: the 60 s timer of the wait fires
RequestTimeout(r) ==
    /\ cs.req[r].at = "waiting"
    /\ cs' = [cs EXCEPT !.req[r].at = "rejected"]
    /\ UNCHANGED outsideCs

\* 116-129: 300 ms after the rect arrived the visible tab is captured
RequestCaptureViewport(r) ==
    /\ cs.req[r].at = "delay"
    /\ cs' = [cs EXCEPT !.req[r].at = "captured",
                        !.req[r].overlayInShot = (cs.dom # {})]
    /\ UNCHANGED outsideCs

\* 62, 67: broadcastCleanup, handled by the page, 130-131
RequestBroadcastCleanup(r) ==
    /\ cs.req[r].at \in {"captured", "rejected"}
    /\ cs' = [received(cs, cleanup) EXCEPT !.req[r].at = "done"]
    /\ UNCHANGED outsideCs

InitPage ==
    /\ CaptureIdle
    /\ EditorInit
    /\ SelectionIdle
    /\ PrimingIdle
    /\ BlurIdle
    /\ HandoffIdle
    /\ StylePresetsIdle
    /\ StageIdle
    /\ DomIdle
    /\ TabRunsIdle
    /\ cs = NoContentScript

NextPage ==
    \/ \E pos \in PointerPositions : OverlayMouseDown(pos)
    \/ \E pos \in PointerPositions : BoxMouseDown(pos)
    \/ HandleMouseDown
    \/ \E pos \in PointerPositions : DocumentMouseMove(pos)
    \/ DocumentMouseUp
    \/ \E key \in {"Escape", "Enter"} : DocumentKeyDown(key)
    \/ ConfirmClick
    \/ CancelClick
    \/ \E r \in Requests :
          \/ RequestInject(r)
          \/ RequestStartSelection(r)
          \/ RequestWait(r)
          \/ RequestTimeout(r)
          \/ RequestCaptureViewport(r)
          \/ RequestBroadcastCleanup(r)
    \/ DeliverSelectionComplete

SpecPage == InitPage /\ [][NextPage]_vars

----------------------------------------------------------------------------
(* The hand-over of the bitmap: handleCapture 42-70 writes it under the    *)
(* key capturedImage and opens an editor tab, whose Editor reads the key   *)
(* one second after it mounted, Editor.tsx 228-283.                        *)

\* 45-58: the capture of request r resolved with a bitmap
HandoffCapture(r, mode) ==
    /\ handoff.req[r].at = "idle"
    /\ handoff' = [handoff EXCEPT
                      !.req[r] = [at |-> "captured",
                                  image |-> << [request |-> r, mode |-> mode] >>]]
    /\ UNCHANGED outsideHandoff

\* 60: browser.storage.local.set({ capturedImage })
HandoffStore(r) ==
    /\ handoff.req[r].at = "captured"
    /\ handoff' = [handoff EXCEPT !.store = handoff.req[r].image,
                                  !.req[r].at = "stored"]
    /\ UNCHANGED outsideHandoff

\* 61: browser.tabs.create({ url: '/editor.html' })
HandoffCreateTab(r) ==
    /\ handoff.req[r].at = "stored"
    /\ handoff' = [handoff EXCEPT !.req[r].at = "tab",
                                  !.editor[r].state = "opened"]
    /\ UNCHANGED outsideHandoff

\* 62-64, 22-23: the cleanup broadcast and the response
HandoffRespond(r) ==
    /\ handoff.req[r].at = "tab"
    /\ handoff' = [handoff EXCEPT !.req[r].at = "responded"]
    /\ UNCHANGED outsideHandoff

\* Editor.tsx 229-279: loadImage reads capturedImage from the store
EditorLoadImage(r) ==
    /\ handoff.editor[r].state = "opened"
    /\ handoff' = [handoff EXCEPT
                      !.editor[r] = IF handoff.store = <<>>
                                    THEN [state |-> "error", image |-> <<>>]
                                    ELSE [state |-> "loaded",
                                          image |-> handoff.store]]
    /\ UNCHANGED outsideHandoff

InitHandoff ==
    /\ CaptureIdle
    /\ EditorInit
    /\ SelectionIdle
    /\ PrimingIdle
    /\ BlurIdle
    /\ StageIdle
    /\ DomIdle
    /\ TabRunsIdle
    /\ CsIdle
    /\ handoff = NoHandoff
    /\ StylePresetsIdle

NextHandoff ==
    \E r \in Requests :
       \/ \E mode \in {"visible", "selection", "fullpage"} : HandoffCapture(r, mode)
       \/ HandoffStore(r)
       \/ HandoffCreateTab(r)
       \/ HandoffRespond(r)
       \/ EditorLoadImage(r)

SpecHandoff == InitHandoff /\ [][NextHandoff]_vars

----------------------------------------------------------------------------
(* Properties of the capture pipeline.                                     *)

enteredTry == outcome \notin {"running", "error: No active tab",
                              "error: Could not get page dimensions"}

\* C1: once the try block of captureFullPage has been entered, every exit
\* (normal completion, capture error, zero frames, stitching error) has
\* issued exactly one restore instruction, which (on a tab that still accepts
\* scripts) removed the hide styling and scrolled the page back to the
\* original position.
RestoreOnEveryExit ==
    (pc = "done" /\ enteredTry) =>
        /\ restoreIssued = 1
        /\ scriptable =>
              page = [scrollX |-> dimensions.scrollX,
                      scrollY |-> dimensions.scrollY, hidden |-> FALSE]

\* a run that failed at its third capture, after the page was scrolled and
\* floating elements hidden, and was restored
RestoreAfterCaptureError ==
    /\ pc = "done"
    /\ outcome = "error: capture failed"
    /\ Len(captures) = 2
    /\ dimensions.scrollY = 120
    /\ restoreIssued = 1
    /\ ~page.hidden

\* the draw recorded for frame i
DrawFor(i) == CHOOSE d \in { canvas.draws[k] : k \in 1..Len(canvas.draws) } :
                  d.frame = i
IsDrawn(i) == \E k \in 1..Len(canvas.draws) : canvas.draws[k].frame = i

\* frame i follows frame i-1 by at most one viewport
Consecutive(i) ==
    /\ captures[i - 1] < captures[i]
    /\ captures[i] <= captures[i - 1] + dimensions.clientHeight

\* prevEndY of the claim, round(o[i-1]*dpr + viewportPx)
ClaimPrevEndY(i) == RoundHalf(captures[i - 1] * dimensions.dpr2 + 2 * bitmapHeight)

\* C2: in stitchImages every frame i >= 1 with o[i-1] < o[i] <= o[i-1] + vh
\* (and starting inside the output) is drawn at destination row
\* prevEndY = round(o[i-1]*dpr + viewportPx), skipping exactly
\* max(0, prevEndY - o[i]*dpr) source rows, and its destination range begins
\* where the range of frame i-1 ends: no duplicated row and no gap row.
SeamFreeStitch ==
    outcome = "stitched" =>
        \A i \in 2..Len(captures) :
            (Consecutive(i) /\ ClaimPrevEndY(i) < canvas.height) =>
                /\ IsDrawn(i) /\ IsDrawn(i - 1)
                /\ DrawFor(i).dy = ClaimPrevEndY(i)
                /\ 2 * DrawFor(i).sy =
                      Max(0, 2 * ClaimPrevEndY(i) - captures[i] * dimensions.dpr2)
                /\ DrawFor(i).dy = DrawFor(i - 1).dy + DrawFor(i - 1).h

\* the scenario of C2: offsets [0, 800, 1550], viewport 800, dpr 1
StitchScenario ==
    /\ outcome = "stitched"
    /\ captures = <<0, 800, 1550>>
    /\ dimensions.dpr2 = 2
    /\ canvas.height = 2350
    /\ DrawFor(3) = [frame |-> 3, sy |-> 50, dy |-> 1600, h |-> 750]

\* number of draws that paint output row r (writes are clipped to the canvas)
Cover(r) ==
    Cardinality({ k \in 1..Len(canvas.draws) :
                     /\ canvas.draws[k].dy <= r
                     /\ r < canvas.draws[k].dy + canvas.draws[k].h
                     /\ r < canvas.height })

\* the rows at which the cover count can change: the first and last row of
\* the output and the rows around every draw's first and last row
BoundaryRows ==
    ({0, canvas.height - 1}
       \cup UNION { { canvas.draws[k].dy - 1, canvas.draws[k].dy,
                      canvas.draws[k].dy + canvas.draws[k].h - 1,
                      canvas.draws[k].dy + canvas.draws[k].h } :
                    k \in 1..Len(canvas.draws) })
    \cap (0..(canvas.height - 1))

\* C3: the frames captured from a page of constant height cover every row of
\* the output [0, min(H*dpr, MAX_CANVAS_HEIGHT)) exactly once.
EveryRowOnce ==
    outcome = "stitched" => \A r \in BoundaryRows : Cover(r) = 1

\* C4: the output canvas height is the least integer >= totalHeight*dpr when
\* that is below MAX_CANVAS_HEIGHT, and MAX_CANVAS_HEIGHT otherwise; it never
\* exceeds MAX_CANVAS_HEIGHT.
CanvasHeightCapped ==
    outcome = "stitched" =>
        LET t2 == dimensions.scrollHeight * dimensions.dpr2
        IN  /\ canvas.height <= MAX_CANVAS_HEIGHT
            /\ t2 >= 2 * MAX_CANVAS_HEIGHT => canvas.height = MAX_CANVAS_HEIGHT
            /\ t2 < 2 * MAX_CANVAS_HEIGHT =>
                  (2 * canvas.height >= t2 /\ 2 * (canvas.height - 1) < t2)

\* total 50000 at dpr 2 yields the maximum, not 100000
CanvasAtMaximum ==
    /\ outcome = "stitched"
    /\ dimensions.scrollHeight = 50000
    /\ dimensions.dpr2 = 4
    /\ canvas.height = 30000

\* C11: once the capture of a frame has failed, no further scroll or capture
\* is issued (the frames recorded are those before the failing iteration),
\* stitchImages is not invoked, nothing is written to the store, no editor
\* tab is created, and the response, once sent, has success = false
NoSalvageAfterCaptureError ==
    outcome = "error: capture failed" =>
        /\ pc \in {"finally", "done"}
        /\ Len(captures) = iteration - 1
        /\ canvas = NoCanvas
        /\ store = <<>>
        /\ editorTabs = 0
        /\ hc.at # "resolved"
        /\ hc.at = "responded" =>
              response = << [success |-> FALSE, error |-> outcome] >>

\* the capture of the third frame failed and the requester was answered
CaptureErrorAnswered ==
    /\ outcome = "error: capture failed"
    /\ iteration = 3
    /\ Len(captures) = 2
    /\ hc.at = "responded"
    /\ response # <<>>
    /\ ~response[1].success

WaitReleasesResources ==
    [][ /\ ws'.outcome # <<>> => (~ws'.listener /\ ~ws'.timer)
        /\ ws.outcome # <<>> => ws'.outcome = ws.outcome
        /\ (ws.timer /\ ~ws'.timer /\ inbox' = inbox) =>
              ws'.outcome = << "error: Selection timeout" >>
        /\ (ws.outcome = <<>> /\ ws'.outcome # <<>> /\ inbox' # inbox) =>
              ws'.outcome = << settlement(Head(inbox)) >> ]_vars

\* the wait timed out and a message arrived afterwards
TimedOutThenMessage ==
    /\ ws.outcome = << "error: Selection timeout" >>
    /\ ws.late = 1
    /\ ~ws.listener /\ ~ws.timer

\* C13 as stated: priming stops exactly when the height has been observed
\* unchanged on 3 consecutive steps, and not earlier
PrimingStopsOnlyWhenStable ==
    prime.pc \in {"afterLoop", "done"} => prime.sameHeightCount = 3

\* C13, amended: a step that observes a changed height resets the count to 0
\* and one that observes the same height adds 1; priming stops at the step
\* at which the count reaches 3 or the target offset passes the safety
\* limit, and at no other step
PrimingStopRule ==
    [][ prime'.steps = prime.steps + 1 =>
            /\ prime'.sameHeightCount =
                  IF prime'.pageHeight = prime.lastHeight
                  THEN prime.sameHeightCount + 1 ELSE 0
            /\ prime'.sameHeightCount <= 3
            /\ (prime'.pc # "loop") <=>
                  (prime'.sameHeightCount = 3 \/ prime'.currentY > 100000) ]_vars

\* heights [1000, 1000, 1000, 1000]: priming has stopped after the 4th step
StableAfterFourSteps ==
    /\ prime.pc = "done"
    /\ prime.steps = 4
    /\ prime.pageHeight = 1000
    /\ prime.sameHeightCount = 3

\* C24: priming terminates whatever heights the page reports, also when the
\* height grows at every step: the loop is never continued with a target
\* offset beyond the safety limit, priming ends, and when it has ended the
\* page is scrolled back to the top.
PrimingTerminatesAtTop ==
    /\ [](prime.pc = "loop" => prime.currentY <= SafetyLimit)
    /\ [](prime.pc = "done" => prime.scrollY = 0)
    /\ <>(prime.pc = "done")

\* a page of height 3000 that grew by 1000 at every step: priming ended on
\* the safety limit, at the top
GrowingPagePrimed ==
    /\ prime.pc = "done"
    /\ prime.scrollY = 0
    /\ prime.currentY > SafetyLimit
    /\ prime.pageHeight = 3000 + 1000 * prime.steps

\* C25: the original scroll position is read at the start of the run, before
\* the run has scrolled the page, so the metrics hold the position the user
\* had and the restoration scrolls back to it, whatever that position was.
RestoresUserScrollPosition ==
    /\ prime.pc \in {"frames", "finally", "restored"} =>
          prime.originalScrollY = prime.userScrollY
    /\ prime.pc = "restored" => prime.scrollY = prime.userScrollY

----------------------------------------------------------------------------
(* Properties of the editor.                                               *)

\* C5: whenever undo is enabled after committed mutations, undo followed by
\* redo gives back the same element sequence and the same historyIndex, and
\* neither step touches history
UndoRedoRoundTrip ==
    historyIndex > 0 =>
        LET u == undoResult(history, historyIndex)
            r == redoResult(history, u.historyIndex)
        IN  /\ u.historyIndex < Len(history) - 1
            /\ r.elements = elements
            /\ r.historyIndex = historyIndex

\* two mutations were committed on a document that holds an element, and
\* undo is enabled
UndoEnabledAfterMutations ==
    /\ ~isDrawing
    /\ historyIndex = 2
    /\ Len(history) = 3
    /\ Len(elements) > 0
    /\ history[2] # elements

\* C6: every step that records a snapshot after an undo leaves history equal
\* to the entries 0..historyIndex it had before followed by the new snapshot, with
\* historyIndex on the last entry, so that no snapshot that was redoable
\* before the step is still in history
RecordDiscardsRedoable ==
    [][ (historyIndex < Len(history) - 1 /\ history' # history
                                         /\ Len(history') > 1) =>
            /\ history' = Append(SubSeq(history, 1, historyIndex + 1), elements')
            /\ historyIndex' = Len(history') - 1 ]_vars

\* C7: historyIndex stays within history; undo and redo move it by one and
\* leave history as it is; undo does nothing at index 0 and redo does nothing
\* at the last index
HistoryIndexInRange ==
    [][ /\ 0 <= historyIndex'
        /\ historyIndex' < Len(history')
        /\ (undo \/ redo) =>
              /\ history' = history
              /\ Abs(historyIndex' - historyIndex) = 1
        /\ (historyIndex = 0) => ~undo
        /\ (historyIndex = Len(history) - 1) => ~redo ]_vars

\* every snapshot but the first has been undone: undo is now a no-op
UndoneToFirstSnapshot ==
    /\ historyIndex = 0
    /\ Len(history) = 3
    /\ elements = <<>>

\* C8: the step that completes a crop leaves an empty element sequence, a
\* history of exactly one empty snapshot and historyIndex 0 (neither undo nor
\* redo is enabled), and clears the crop region
CropResetsDocument ==
    [][ (pendingCrop # <<>> /\ pendingCrop' = <<>>) =>
            /\ elements' = <<>>
            /\ history' = << <<>> >>
            /\ historyIndex' = 0
            /\ cropRect' = <<>> ]_vars

\* a crop has completed on a document to which an element had been added
CroppedAfterAdd ==
    /\ image # LoadedImage
    /\ pendingCrop = <<>>
    /\ elementCounter > 1
    /\ elements = <<>>
    /\ history = << <<>> >>

\* the box an element is rendered in, <<left, top, right, bottom>>
RECURSIVE minCoord(_, _)
minCoord(pts, i) ==
    IF i + 2 > Len(pts) THEN pts[i] ELSE Min(pts[i], minCoord(pts, i + 2))

RECURSIVE maxCoord(_, _)
maxCoord(pts, i) ==
    IF i + 2 > Len(pts) THEN pts[i] ELSE Max(pts[i], maxCoord(pts, i + 2))

elementBox(el) ==
    IF el.type \in PathTools
    THEN << el.x + minCoord(el.points, 1), el.y + minCoord(el.points, 2),
            el.x + maxCoord(el.points, 1), el.y + maxCoord(el.points, 2) >>
    ELSE << el.x, el.y, el.x + el.width, el.y + el.height >>

\* the crop region, normalised as applyCrop does
cropBox(rect) ==
    << Min(rect.x, rect.x + rect.width), Min(rect.y, rect.y + rect.height),
       Max(rect.x, rect.x + rect.width), Max(rect.y, rect.y + rect.height) >>

Overlaps(el, rect) ==
    LET e == elementBox(el)
        c == cropBox(rect)
    IN  e[1] <= c[3] /\ c[1] <= e[3] /\ e[2] <= c[4] /\ c[2] <= e[4]

\* C9: the bitmap produced by applyCrop contains the rendering of every
\* visible element that overlaps the crop region
CropBakesAnnotations ==
    [][ (pendingCrop = <<>> /\ pendingCrop' # <<>>) =>
            \A k \in 1..Len(elements) :
                (elements[k].visible /\ Overlaps(elements[k], cropRect[1])) =>
                    elements[k].id \in pendingCrop'[1].annotations ]_vars

\* an element whose displacement is zero in both axes, or a path whose
\* points all coincide
zeroExtent(el) ==
    IF el.type \in PathTools
    THEN \A i \in 1..Len(el.points) :
            el.points[i] = el.points[IF i % 2 = 1 THEN 1 ELSE 2]
    ELSE el.width = 0 /\ el.height = 0

\* C10: no element committed by a gesture of a drawing tool has zero extent
NoZeroExtentElement ==
    \A k \in 1..Len(elements) :
        elements[k].type \in DrawTools => ~zeroExtent(elements[k])

\* C14: all elements of the document have pairwise distinct ids
UniqueElementIds ==
    \A i \in 1..Len(elements), j \in 1..Len(elements) :
        i # j => elements[i].id # elements[j].id

----------------------------------------------------------------------------
(* Order of the frame loop of captureFullPage.                             *)

\* C17: within one run the scroll for frame k+1 is issued only when k frames
\* have been recorded and targets k viewport heights, each advance adds one
\* (positive) viewport height to the target, and every frame is appended at
\* the end of the recorded sequence, as the frame of the current iteration.
FramesInIncreasingOrder ==
    [][ /\ iteration' # iteration =>
              /\ iteration' = iteration + 1
              /\ pc = "loop"
              /\ Len(captures) = iteration
              /\ currentY = iteration * dimensions.clientHeight
        /\ currentY' # currentY =>
              /\ currentY' = currentY + dimensions.clientHeight
              /\ currentY' > currentY
              /\ Len(captures) = iteration
        /\ captures' # captures =>
              /\ captures' = Append(captures, actualScrollY)
              /\ Len(captures') = iteration
              /\ currentY = (iteration - 1) * dimensions.clientHeight
      ]_vars

ThirdFrameRecorded ==
    /\ Len(captures) = 3
    /\ iteration = 3
    /\ currentY = 2 * dimensions.clientHeight
    /\ pc = "advance"

\* C21: the first frame is captured straight after the scroll of iteration
\* 1, before any hide has been issued; in every later iteration the scroll
\* is followed by the hide and the hide by the capture, so that a later
\* frame is captured with the floating elements hidden whenever the page
\* still accepts injected scripts.
HideOrderedWithCapture ==
    [][ /\ (pc' = "capture" /\ pc # "capture") =>
              IF iteration' = 1
              THEN pc = "loop" /\ iteration = 0 /\ ~page'.hidden
              ELSE pc = "hideBefore" /\ iteration' = iteration
        /\ (pc' = "hideBefore" /\ pc # "hideBefore") =>
              pc = "loop" /\ iteration' = iteration + 1 /\ iteration' > 1
        /\ captures' # captures =>
              /\ pc = "capture"
              /\ iteration = 1 => ~page.hidden /\ captures = <<>>
              /\ (iteration > 1 /\ scriptable) => page.hidden
        /\ (page'.hidden /\ ~page.hidden) => Len(captures) >= 1
      ]_vars

SecondFrameAfterHide ==
    /\ iteration = 2
    /\ Len(captures) = 2
    /\ page.hidden
    /\ pc = "advance"

\* C26: every draw of stitchImages writes rows inside the output canvas, and
\* no frame whose offset is at or beyond the height cap is drawn.
DrawsWithinCanvas ==
    \A k \in 1..Len(canvas.draws) :
       LET d == canvas.draws[k]
       IN  /\ d.dy >= 0
           /\ d.h > 0
           /\ d.dy + d.h <= canvas.height
           /\ scrollY2(captures, dimensions.dpr2, d.frame)
                 < 2 * MAX_CANVAS_HEIGHT

\* C27: a failure of script injection when the metrics are read, at a scroll
\* step or at a hide step is fatal: the step that meets it ends the run with
\* an error instead of going on to capture.
InjectionFailureIsFatal ==
    [][ (/\ ~scriptable
         /\ \/ pc = "start"
            \/ pc = "loop" /\ currentY < dimensions.scrollHeight
            \/ pc \in {"hideBefore", "hideAfter"}
         /\ pc' # pc)
        => /\ pc' \in {"finally", "done"}
           /\ outcome' \notin {"running", "stitched"}
      ]_vars

\* C19: the frame loop performs at most 50 iterations and records at most
\* 50 frames in one run, whatever the page height and viewport height are.
AtMostFiftyIterations ==
    /\ iteration <= 50
    /\ Len(captures) <= 50

\* C20: the offset recorded with a frame is the scroll position the page is
\* actually at when the frame is taken, also when that position differs from
\* the requested target offset.
RecordedOffsetIsActual ==
    [][ captures' # captures =>
           captures'[Len(captures')] = page.scrollY ]_vars

----------------------------------------------------------------------------
(* Properties of the PixelatedBlur component.                              *)

\* C15: once every image load the component started has completed, the
\* content a non-empty blur region shows is the pixelation of the current
\* base bitmap under the region's current bounds.
BlurShowsCurrentBounds ==
    (/\ blur.mounted
     /\ blur.loading = {}
     /\ blur.bounds.width > 0
     /\ blur.bounds.height > 0)
    => blur.blurredImage = << pixelate(blur.image, blur.bounds) >>

----------------------------------------------------------------------------
(* Properties of the stage and its export.                                 *)

\* C16: the stage on screen is the base bitmap's size times the zoom, and
\* an exported image (download or copy) has the base bitmap's size whatever
\* the zoom is.
ExportIsOneToOne ==
    /\ stageWidth(stage) = CeilDiv(image.width * stage.zoom, 100)
    /\ stageHeight(stage) = CeilDiv(image.height * stage.zoom, 100)
    /\ stage.exported # <<>> =>
          /\ stage.exported[1].image.width = image.width
          /\ stage.exported[1].image.height = image.height

----------------------------------------------------------------------------
(* Recording of committed actions of the editor.                           *)

\* one call of record on the document as it is: history is cut after the
\* current index and the new document is appended as its last snapshot
RecordedOnce ==
    /\ history' = Append(SubSeq(history, 1, historyIndex + 1), elements')
    /\ historyIndex' = historyIndex + 1

\* the logical committed user actions: an element committed on release, a
\* non-empty text commit, a drag end, a transform end, a delete, an image
\* add, a preset applied to a non-empty document
CommittedAction ==
    \/ handleStageMouseUp /\ hasSize(currentElement[1])
    \/ \E dt \in 0..1 : handleTextSubmit(dt) /\ trim(textValue) # ""
    \/ \E k \in 1..Len(elements), pos \in DropPoints :
          handleDragEnd(elements[k].id, pos)
    \/ \E k \in 1..Len(elements) : handleTransformEnd(elements[k].id, 2, 1)
    \/ \E k \in 1..Len(elements) : deleteElement(elements[k].id)
    \/ \E dt \in 0..1 : imageOnload(dt)
    \/ \E k \in 1..1 : applyPreset(k) /\ Len(elements) > 0

\* pointer presses and pointer moves, those of a drawing or crop gesture
\* included
PointerPressOrMove ==
    \/ \E pos \in PressPoints : CropMouseDown(pos)
    \/ \E pos \in PressPoints : TextMouseDown(pos)
    \/ \E pos \in PressPoints, dt \in 0..1 : DrawMouseDown(pos, dt)
    \/ \E k \in 1..Len(elements) : handleElementClick(elements[k].id)
    \/ \E pos \in Points : handleStageMouseMove(pos)
    \/ \E pos \in Points : handleCropMouseMove(pos)

\* C18: every committed user action appends exactly one snapshot, the new
\* document, to history, and pointer presses and pointer moves append none
\* and leave elements, history and historyIndex unchanged.
OneSnapshotPerCommittedAction ==
    [][ /\ CommittedAction => RecordedOnce
        /\ PointerPressOrMove => UNCHANGED <<elements, history, historyIndex>>
      ]_vars

\* the steps of a gesture that is discarded or canceled: the press, the moves
\* and the release without size of a drawing tool; opening the text field,
\* typing, canceling, and confirming blank text; dragging a crop rectangle
\* and canceling it
DiscardedGestureStep ==
    \/ \E pos \in PressPoints, dt \in 0..1 : DrawMouseDown(pos, dt)
    \/ \E pos \in Points : handleStageMouseMove(pos)
    \/ handleStageMouseUp /\ ~hasSize(currentElement[1])
    \/ \E pos \in PressPoints : TextMouseDown(pos)
    \/ \E v \in TextValues : TextChange(v)
    \/ TextCancel
    \/ \E dt \in 0..1 : handleTextSubmit(dt) /\ trim(textValue) = ""
    \/ \E pos \in PressPoints : CropMouseDown(pos)
    \/ \E pos \in Points : handleCropMouseMove(pos)
    \/ handleCropMouseUp
    \/ cancelCrop

\* C29: a release without enough extent, a text cancel, a confirm of empty
\* or whitespace-only text and a crop cancel, and the steps of the gesture
\* before them, leave elements, history, historyIndex and elementCounter
\* unchanged.
DiscardLeavesDocument ==
    [][ DiscardedGestureStep =>
           UNCHANGED <<elements, history, historyIndex, elementCounter>> ]_vars

\* whitespace-only text was typed over a document with a committed element,
\* and the text field was closed by a cancel or by a confirm
BlankTextDiscarded ==
    /\ ~textInput.visible
    /\ textValue = " "
    /\ Len(elements) >= 1
    /\ historyIndex >= 1
    /\ elementCounter >= 2

\* C30: applying a preset changes nothing but style attributes, and only of
\* elements whose type occurs among the preset's template elements: the
\* sequence keeps its length and order, every element keeps its id, type,
\* position, points, width, height, text, name and visibility, an element
\* whose type has no template element is unchanged, and afterwards the
\* preset is the active one.
PresetChangesStyleOnly ==
    [][ \A p \in 1..Len(presets) :
           applyPreset(p) =>
              /\ Len(elements') = Len(elements)
              /\ \A i \in 1..Len(elements) :
                    /\ elements'[i] =
                          [elements[i] EXCEPT !.color = elements'[i].color]
                    /\ ~hasType(presets[p].elements, elements[i].type)
                          => elements'[i] = elements[i]
              /\ activePresetId' = << presets[p].id >>
              /\ presets' = presets ]_vars

\* a preset was applied to a document with a rectangle and an element of
\* another type: the rectangle was recoloured from the template
PresetAppliedToMixedDocument ==
    /\ activePresetId = <<1>>
    /\ historyIndex >= 1
    /\ Len(history[historyIndex]) = Len(elements)
    /\ \E i, j \in 1..Len(elements) :
          /\ elements[i].type = "rectangle"
          /\ elements[i].color = "#ff0000"
          /\ history[historyIndex][i].color # "#ff0000"
          /\ elements[j].type # "rectangle"
          /\ history[historyIndex][j] = elements[j]

\* the pointer is reported at the position of the last point of the path
AtLastPoint(el, pos) ==
    /\ el.points[Len(el.points) - 1] = pos[1] - el.x
    /\ el.points[Len(el.points)] = pos[2] - el.y

\* C31: during a pencil gesture a move that reports the position of the last
\* stored point leaves the point list unchanged.
PencilMoveAppendsOnlyNewPoint ==
    [][ \A pos \in Points :
           ( /\ handleStageMouseMove(pos)
             /\ currentElement[1].type = "pencil"
             /\ AtLastPoint(currentElement[1], pos) )
           => currentElement'[1].points = currentElement[1].points ]_vars

\* C32: whenever no gesture and no load is pending, the displayed elements
\* are the snapshot history[historyIndex].
DisplayedIsCurrentSnapshot ==
    ( /\ ~isDrawing
      /\ ~isCropping
      /\ pendingCrop = <<>>
      /\ pendingImage = <<>> )
    => elements = history[historyIndex + 1]

\* C33: the completion of an image upload keeps every element the document
\* held when it completed and every snapshot up to the current one.
UploadKeepsConcurrentEdits ==
    [][ \A dt \in 0..1 :
           imageOnload(dt) =>
              /\ \A i \in 1..Len(elements) :
                    \E j \in 1..Len(elements') : elements'[j] = elements[i]
              /\ \A i \in 1..(historyIndex + 1) :
                    \E j \in 1..Len(history') : history'[j] = history[i] ]_vars

\* C39: the selected id is null or the id of an element of the document.
SelectedIdInDocument ==
    selectedId = <<>> \/ hasElement(elements, selectedId[1])

\* C40: the active preset id is null or the id of a preset of the list, and
\* the persisted preset list is the list in memory.
ActivePresetInList ==
    /\ activePresetId = <<>>
          \/ \E k \in 1..Len(presets) : presets[k].id = activePresetId[1]
    /\ stylePresets = presets

----------------------------------------------------------------------------
(* Properties of hide and restore.                                         *)

\* the page after one hide of the page as it was before the run
hiddenOnce == hideFunc([dom EXCEPT !.styleTags = 0,
                                   !.elements = dom.original])

\* hiding k >= 1 times leaves the page as hiding once does
HideIdempotent ==
    (dom.hides >= 1 /\ ~dom.restored) =>
        /\ dom.styleTags = 1
        /\ dom.elements = hiddenOnce.elements

\* a restore removes the style tag and every marker class
RestoreRemovesMarkers ==
    dom.restored =>
        /\ dom.styleTags = 0
        /\ \A i \in 1..Len(dom.elements) : ~dom.elements[i].marked

\* a restore with nothing hidden changes no element
RestoreOfNothing ==
    (dom.restored /\ dom.hides = 0) => dom.elements = dom.original

\* C22: hiding is idempotent and reversible: k >= 1 hides leave the page as
\* one hide does, and a following restore returns every element to its
\* state before the run: no marker class, and inline visibility, opacity and
\* display as before the first hide; a restore with nothing hidden changes
\* no element.
HideIdempotentAndReversible ==
    /\ HideIdempotent
    /\ RestoreRemovesMarkers
    /\ RestoreOfNothing
    /\ dom.restored => dom.elements = dom.original

----------------------------------------------------------------------------
(* Properties of concurrent capture requests.                              *)

\* C23: at most one capture pipeline runs at a time: while the run of one
\* 'capture' request is in progress no step of another run is taken on the
\* page, so every frame shows the page at the offset its own run scrolled
\* to.
OnePipelineAtATime ==
    /\ \A r1, r2 \in Requests :
          (InProgress(r1) /\ InProgress(r2)) => r1 = r2
    /\ \A r \in Requests :
          \A k \in 1..Len(tabRuns.run[r].captures) :
             tabRuns.run[r].captures[k].shows = tabRuns.run[r].captures[k].y

----------------------------------------------------------------------------
(* Properties of the selection overlay.                                    *)

\* C34: a user event that removes the overlay from the page sends a
\* 'selection-complete' message.
UserRemovalIsReported ==
    [][ ( /\ cs'.events = cs.events + 1
          /\ cs.dom # {}
          /\ cs'.dom = {} )
        => Len(cs'.outbox) = Len(cs.outbox) + 1 ]_vars

\* the rect has a corner at the point the pointer was pressed at
anchoredAt(r, start) ==
    /\ r.x = start[1] \/ r.x + r.w = start[1]
    /\ r.y = start[2] \/ r.y + r.h = start[2]

\* C35: the rectangle offered for confirmation when a drag ends was drawn
\* from the point pressed in this session.
OfferedRectDrawnInSession ==
    [][ \A i \in Instances :
           (cs'.inst[i].actions /\ ~cs.inst[i].actions)
           => anchoredAt(cs'.inst[i].selectRect, cs'.inst[i].start) ]_vars

\* C36: since the last 'start-selection' at most one 'selection-complete'
\* was sent, and at most one overlay root and one set of document listeners
\* exist, however often the script is injected and the selection started.
OneOverlayOneMessage ==
    /\ cs.sentSinceStart <= 1
    /\ Cardinality(cs.dom) <= 1
    /\ Cardinality({ i \in Instances : cs.inst[i].listeners }) <= 1
    /\ Cardinality({ i \in Instances : cs.inst[i].loaded }) <= 1

\* the script was injected twice, the selection was started a second time
\* while the first request was waiting, and one rect was sent and reached
\* both requests
RestartedSelectionConfirmed ==
    /\ cs.starts = 2
    /\ cs.sentSinceStart = 1
    /\ cs.outbox = <<>>
    /\ \A r \in Requests : cs.req[r].at = "delay"

\* C37: no viewport captured for a selection contains the overlay.
NoOverlayInShot ==
    \A r \in Requests : ~cs.req[r].overlayInShot

----------------------------------------------------------------------------
(* Properties of the hand-over of the bitmap.                              *)

\* C38: an editor tab is opened only when its request has written its
\* bitmap, and the image an editor has read is the bitmap of the request
\* that opened it.
EditorReadsOwnCapture ==
    \A r \in Requests :
       /\ handoff.editor[r].state # "none"
             => handoff.req[r].at \in {"tab", "responded"}
       /\ handoff.editor[r].state # "error"
       /\ handoff.editor[r].state = "loaded"
             => handoff.editor[r].image = handoff.req[r].image

====
